---- MODULE Spec2Model ----
(***************************************************************************)
(* The user-similarity cache of the attractions recommender:               *)
(*   - public.ratings, written by the HTTP layer and by SQL clients;       *)
(*   - public.user_similarity_recalc_queue, filled by the statement-level  *)
(*     trigger trg_user_similarity_recalc on public.ratings;               *)
(*   - scripts/user_similarity_worker.py, which drains the queue,          *)
(*     recomputes the pairwise cosine similarity and rewrites              *)
(*     public.user_similarity in one transaction;                          *)
(*   - scripts/user_cf_db.py, the predictor that reads the table.          *)
(* Every worker process is a sequence of database transactions; each       *)
(* statement of a READ COMMITTED transaction is one step of the model.     *)
(***************************************************************************)
EXTENDS Integers, Sequences, FiniteSets, TLC

\* ------------------------------------------------------------------ bounds
MaxUser == 3          \* user ids 1..MaxUser
MaxItem == 2          \* attraction ids 1..MaxItem
MaxStatements == 2    \* statements on public.ratings in one behaviour
MaxFaults == 1        \* database faults injected into Publishing
NumWorkers == 2       \* worker processes that may run at the same time
BatchSize == 2        \* rows per INSERT batch (batch_size, scaled down from 1000)

\* ------------------------------------------------------- program constants
MinRating == 1        \* RatingInput.rating ge=1
MaxRating == 5        \* RatingInput.rating le=5
NumericScale == 1000  \* similarity NUMERIC(4,3): three decimal places

Users == 1..MaxUser
Items == 1..MaxItem
Workers == 1..NumWorkers
NoRow == MinRating - 1   \* no row for this (user, attraction) pair
Cells == Users \X Items

VARIABLES
    ratings,          \* public.ratings: Cells -> rating, NoRow when absent
    trigger_installed,\* trg_user_similarity_recalc exists on public.ratings
    queue,            \* ids of the rows of user_similarity_recalc_queue
    next_id,          \* next value of the queue's BIGSERIAL sequence
    user_similarity,  \* committed rows of public.user_similarity
    tx_sim,           \* the table as seen inside the open publishing transaction
    pc,               \* position of each worker process
    last_id,          \* last_id of queue_has_jobs_and_clear, per worker
    sim_df,           \* sim_df of main(), per worker
    pred_pc,          \* the predictor: "idle", or "reading" (SELECT issued)
    pred_sim,         \* sim_df last read by the predictor (load_data_from_db)
    stmt_count,       \* statements executed on public.ratings so far
    last_rows,        \* rows changed by the most recent statement on ratings
    recomputes,       \* per marker id: cycles whose SELECT found the marker
    faults,           \* database faults injected so far
    published,        \* the last table a Publishing committed in full
    quiet,            \* per worker: no statement on ratings since its SELECT
    late,             \* ids of the markers inserted while a cycle was under way
    cf_in,            \* arguments of the last call of recommend_user_based
    cf_out,           \* what that call returned or raised
    fly_out,          \* what scripts/user_cf.py returns or raises on the same call
    wh_in,            \* arguments of the last call of parse_working_hours_flag
    wh_out,           \* what that call returned or raised
    cs_in,            \* arguments of the last call of recommend_cosine
    cs_out,           \* what that call returned or raised
    attractions,      \* public.attractions: Items -> rating, in tenths
    rating_trigger_installed, \* update_attraction_rating_trigger exists
    submitted,        \* per pair: the rating most recently submitted for it
    response          \* outcome of the last submission of ratings

\* The variables of the similarity cache.
cacheVars == <<ratings, trigger_installed, queue, next_id, user_similarity,
               tx_sim, pc, last_id, sim_df, pred_pc, pred_sim, stmt_count,
               last_rows, recomputes, faults, published, quiet, late>>

\* The variables of the scoring functions, which the cache never touches.
cfVars == <<cf_in, cf_out, fly_out>>

whVars == <<wh_in, wh_out>>

csVars == <<cs_in, cs_out>>

scoringVars == <<cfVars, whVars, csVars>>

\* The attractions table, and the account of the ratings submitted through
\* save_onboarding_ratings and load_ratings_from_csv.
dataVars == <<attractions, rating_trigger_installed, submitted, response>>

vars == <<cacheVars, scoringVars, dataVars>>

\* ROUND(x, 1) keeps one decimal digit: ratings of attractions are counted
\* in tenths.
NumericTenths == 10

\* ----------------------------------------------------------------- helpers
SetMax(S) == CHOOSE m \in S : \A x \in S : x <= m

Min2(a, b) == IF a <= b THEN a ELSE b

Max2(a, b) == IF a >= b THEN a ELSE b

\* Ascending sequence of the elements of a finite set of integers.
RECURSIVE SortedSeq(_)
SortedSeq(S) ==
    IF S = {} THEN << >>
    ELSE LET m == SetMax(S) IN Append(SortedSeq(S \ {m}), m)

\* The orders in which n rows can be arranged.
Orders(n) ==
    {p \in [1..n -> 1..n] : \A j, k \in 1..n : j # k => p[j] # p[k]}

\* Largest r in lo..hi with r * r <= n (lo * lo <= n is assumed).
RECURSIVE IntSqrt(_, _, _)
IntSqrt(n, lo, hi) ==
    IF lo >= hi THEN lo
    ELSE LET mid == (lo + hi + 1) \div 2
         IN IF mid * mid <= n THEN IntSqrt(n, mid, hi)
            ELSE IntSqrt(n, lo, mid - 1)

\* ------------------------------------------- user-item matrix and similarity
\* pivot_table(index="user_id"): the sorted ids of the users that have a row.
MatrixUsers(r) ==
    SortedSeq({u \in Users : \E i \in Items : r[<<u, i>>] # NoRow})

\* fillna(0.0): a missing rating is 0 in the vector of the user.
Filled(r, u, i) == IF r[<<u, i>>] = NoRow THEN 0 ELSE r[<<u, i>>]

RECURSIVE DotUpTo(_, _, _, _)
DotUpTo(r, u, v, n) ==
    IF n = 0 THEN 0
    ELSE Filled(r, u, n) * Filled(r, v, n) + DotUpTo(r, u, v, n - 1)

Dot(r, u, v) == DotUpTo(r, u, v, MaxItem)

\* cosine_similarity(u, v) = Dot(u, v) / sqrt(Dot(u, u) * Dot(v, v)), kept exact
\* as the pair (num, den2): the value is num / sqrt(den2).
Cosine(r, u, v) == [num |-> Dot(r, u, v), den2 |-> Dot(r, u, u) * Dot(r, v, v)]

\* Storing a cosine in the column similarity NUMERIC(4,3) rounds it to three
\* decimals; the result is kept in thousandths.  With a = 2k - 1:
\* k = round(1000 c)  <=>  a <= 2000 c < a + 2  <=>  a^2 <= 4e6 num^2 / den2.
ToNumeric(c) ==
    IF c.den2 = 0 THEN 0
    ELSE LET p == c.num * c.num
             two == 2 * NumericScale
             d1 == (two * p) \div c.den2
             r1 == (two * p) % c.den2
             f == two * d1 + (two * r1) \div c.den2
         IN (IntSqrt(f, 0, two + 1) + 1) \div 2

\* One row of sim_df: the canonical pair and the exact cosine.
PairRow(r, a, b) ==
    [user_id_low |-> Min2(a, b), user_id_high |-> Max2(a, b),
     similarity |-> Cosine(r, a, b)]

\* for j in range(i, n): the inner loop starts at the user itself.
InnerRowsWithSelf(r, ids, i) ==
    [k \in 1..(Len(ids) - i + 1) |-> PairRow(r, ids[i], ids[i + k - 1])]

\* for j in range(i + 1, n): the rows of the pairs (ids[i], ids[j]), j > i.
InnerRows(r, ids, i) ==
    [k \in 1..(Len(ids) - i) |-> PairRow(r, ids[i], ids[i + k])]

\* for i in range(n): all rows, in the order the loops append them.
RECURSIVE RowsFrom(_, _, _)
RowsFrom(r, ids, i) ==
    IF i > Len(ids) THEN << >>
    ELSE InnerRows(r, ids, i) \o RowsFrom(r, ids, i + 1)

compute_pairwise_similarity(r) == RowsFrom(r, MatrixUsers(r), 1)

\* load_ratings raises on an empty table, compute_pairwise_similarity on a
\* matrix with fewer than 2 users: the recompute aborts.
RecomputeAborts(r) == Len(MatrixUsers(r)) < 2

\* One record of sim_df as the INSERT stores it.
StoredRow(rec) ==
    [user_id_low |-> rec.user_id_low, user_id_high |-> rec.user_id_high,
     similarity |-> ToNumeric(rec.similarity)]

\* records[start : start + batch_size], as stored.
Chunk(records, start) ==
    [k \in 1..(Min2(start + BatchSize, Len(records)) - start) |->
        StoredRow(records[start + k])]

\* The table a successful Publishing of sim_df leaves behind.
Published(records) == [k \in 1..Len(records) |-> StoredRow(records[k])]

\* ------------------------------------------- the aggregate rating
\* SUM(rating) over the rows of attraction i by the users of S.
RECURSIVE SumRatings(_, _, _)
SumRatings(r, i, S) ==
    IF S = {} THEN 0
    ELSE LET u == CHOOSE x \in S : TRUE
         IN r[<<u, i>>] + SumRatings(r, i, S \ {u})

\* ROUND(AVG(rating), 1) of the ratings of one attraction, in tenths.
RoundedAverage(r, i) ==
    LET raters == {u \in Users : r[<<u, i>>] # NoRow}
        n == Cardinality(raters)
    IN (2 * NumericTenths * SumRatings(r, i, raters) + n) \div (2 * n)

\* update_attraction_rating: every attraction that has ratings gets their
\* rounded average; one without ratings is no row of the subquery and keeps
\* its rating.
update_attraction_rating(r, a) ==
    [i \in Items |->
        IF \E u \in Users : r[<<u, i>>] # NoRow THEN RoundedAverage(r, i)
        ELSE a[i]]

\* ---------------------------------------------------------------- initial
\* The ratings table loaded before the first worker run (db_load_ratings).
SeedRatings ==
    [c \in Cells |->
        IF c = <<1, 1>> THEN MaxRating
        ELSE IF c = <<1, 2>> THEN MinRating
        ELSE IF c = <<2, 1>> THEN MinRating
        ELSE IF c = <<3, 2>> THEN MaxRating
        ELSE NoRow]

CacheInit ==
    /\ ratings = SeedRatings
    /\ trigger_installed = FALSE
    /\ queue = {}
    /\ next_id = 1
    /\ user_similarity = << >>
    /\ tx_sim = << >>
    /\ pc = [w \in Workers |-> "idle"]
    /\ last_id = [w \in Workers |-> 0]
    /\ sim_df = [w \in Workers |-> << >>]
    /\ pred_pc = "idle"
    /\ pred_sim = << >>
    /\ stmt_count = 0
    /\ last_rows = 0
    /\ recomputes = [m \in 1..MaxStatements |-> 0]
    /\ faults = 0
    /\ published = << >>
    /\ quiet = [w \in Workers |-> FALSE]
    /\ late = {}

\* No scoring function has been called.
NotCalled == "not called"

NoCfCall ==
    [ratings_df |-> << >>, attractions_df |-> {}, sim_df |-> << >>,
     user_id |-> 0, top_k |-> 0]

NoResult == [error |-> NotCalled, rows |-> << >>]

CfIdle == cf_in = NoCfCall /\ cf_out = NoResult /\ fly_out = NoResult

NoWhCall == [wh_str |-> << >>, desired_period |-> NotCalled]

NoFlag == [error |-> NotCalled, value |-> 0]

WhIdle == wh_in = NoWhCall /\ wh_out = NoFlag

\* The key "min_rating" is absent from user_preferences.
NoMinRating == 0 - 1

\* A user_preferences dictionary without any key.
NoPreferences ==
    [city |-> << >>, type |-> << >>, transport |-> << >>, price |-> << >>,
     desired_period |-> "anytime", min_rating |-> NoMinRating]

NoCsCall == [df |-> << >>, user_preferences |-> NoPreferences, top_k |-> 0]

CsIdle == cs_in = NoCsCall /\ cs_out = NoResult

ScoringIdle == CfIdle /\ WhIdle /\ CsIdle

\* The rating column of a row of public.attractions that was never set:
\* NULL, which get_data_from_db reads as 0.
NullRating == 0

\* The attractions as loaded, and no submission made since the seed.  The
\* script that creates the rating trigger first runs the same UPDATE once
\* (update_ratings_for_attractions).
DataInit(installed) ==
    /\ rating_trigger_installed = installed
    /\ attractions =
          IF installed
          THEN update_attraction_rating(SeedRatings, [i \in Items |-> NullRating])
          ELSE [i \in Items |-> NullRating]
    /\ submitted = SeedRatings
    /\ response = NotCalled

\* db_update_create_trigger.py has not been run.
DataIdle == DataInit(FALSE)

Init == CacheInit /\ ScoringIdle /\ DataIdle

\* ------------------------------------------------- statements on ratings
\* The rows a statement changes: INSERT adds the absent rows among the named
\* ones (a present row is a conflict and is skipped), UPDATE and DELETE act on
\* the present ones.
RowsAffected(r, kind, u, S) ==
    IF kind = "INSERT"
    THEN {<<u, i>> : i \in {j \in S : r[<<u, j>>] = NoRow}}
    ELSE {<<u, i>> : i \in {j \in S : r[<<u, j>>] # NoRow}}

ApplyStatement(r, kind, rows, v) ==
    [c \in Cells |->
        IF c \in rows THEN (IF kind = "DELETE" THEN NoRow ELSE v) ELSE r[c]]

\* The trigger declared FOR EACH ROW.
MarkersPerRow(rows) == IF trigger_installed THEN Cardinality(rows) ELSE 0

\* notify_user_similarity_recalc: INSERT INTO queue DEFAULT VALUES, fired
\* AFTER INSERT OR UPDATE OR DELETE ... FOR EACH STATEMENT: one marker for the
\* statement, whatever rows it changed, once the trigger exists.
MarkersInserted(rows) == IF trigger_installed THEN 1 ELSE 0

\* update_attraction_rating_trigger, AFTER INSERT OR UPDATE OR DELETE ... FOR
\* EACH ROW: it runs when the statement changed a row, once it exists.
AfterRowTrigger(r, rows) ==
    IF rating_trigger_installed /\ rows # {}
    THEN update_attraction_rating(r, attractions)
    ELSE attractions

\* From the SELECT of Draining to the end of Publishing.
InCycle == {"delete", "load", "save", "insert", "commit"}

predVars == <<pred_pc, pred_sim>>

stmtVars == <<stmt_count, last_rows>>

tableVars == <<user_similarity, tx_sim, published>>

\* One committed statement on public.ratings, by any writer.
RatingStatement(kind, u, S, v) ==
    /\ stmt_count < MaxStatements
    /\ LET rows == RowsAffected(ratings, kind, u, S)
           n == MarkersInserted(rows)
       IN /\ ratings' = ApplyStatement(ratings, kind, rows, v)
          /\ attractions' = AfterRowTrigger(ApplyStatement(ratings, kind, rows, v),
                                            rows)
          /\ last_rows' = Cardinality(rows)
          /\ queue' = queue \cup (next_id..(next_id + n - 1))
          /\ next_id' = next_id + n
          /\ late' = IF \E w \in Workers : pc[w] \in InCycle
                     THEN late \cup (next_id..(next_id + n - 1))
                     ELSE late
    /\ stmt_count' = stmt_count + 1
    /\ quiet' = [w \in Workers |-> FALSE]
    /\ UNCHANGED <<trigger_installed, tableVars, pc, last_id, sim_df, predVars,
                   recomputes, faults>>
    /\ UNCHANGED <<scoringVars, rating_trigger_installed, submitted, response>>

\* ------------------------------------------- submissions of ratings
\* (backend/app.py save_onboarding_ratings, backend/db_load_ratings.py)
MaxBatchLen == 2      \* most ratings in one batch or one CSV file

\* The effect of a committed transaction that ran the given number of
\* statements on public.ratings and changed the given rows: both triggers
\* fire, the statement-level one once per statement.
Committed(r, rows, statements) ==
    LET n == statements * MarkersInserted(rows)
    IN /\ ratings' = r
       /\ attractions' = AfterRowTrigger(r, rows)
       /\ last_rows' = Cardinality(rows)
       /\ queue' = queue \cup (next_id..(next_id + n - 1))
       /\ next_id' = next_id + n
       /\ late' = IF \E w \in Workers : pc[w] \in InCycle
                  THEN late \cup (next_id..(next_id + n - 1))
                  ELSE late
       /\ stmt_count' = stmt_count + statements
       /\ quiet' = IF statements > 0 THEN [w \in Workers |-> FALSE] ELSE quiet
       /\ UNCHANGED <<trigger_installed, tableVars, pc, last_id, sim_df,
                      predVars, recomputes, faults, rating_trigger_installed>>

\* The attractions a batch names.
NamedIn(batch) == {batch[k].attraction_id : k \in DOMAIN batch}

\* The rating of the last element of the batch that names attraction i.
LastRating(batch, i) ==
    LET last == SetMax({k \in DOMAIN batch : batch[k].attraction_id = i})
    IN batch[last].rating

\* db.get(Rating, pk) finds what the database or the identity map holds; an
\* object added earlier in the loop is pending, and with autoflush=False the
\* SELECT of db.get does not flush it: every element naming a pair without a
\* row adds one more Rating object.
PendingObjects(r, user_id, batch) ==
    SelectSeq(batch, LAMBDA x : r[<<user_id, x.attraction_id>>] = NoRow)

\* The flush of db.commit() inserts every pending object; two of them with
\* one primary key violate it (IntegrityError).
FlushFails(pending) ==
    \E j, k \in DOMAIN pending :
        j < k /\ pending[j].attraction_id = pending[k].attraction_id

\* The table after the commit: every named pair holds the rating assigned
\* to its object last.
Upserted(r, user_id, batch) ==
    [c \in Cells |->
        IF c[1] = user_id /\ c[2] \in NamedIn(batch)
        THEN LastRating(batch, c[2]) ELSE r[c]]

\* What the users asked for: the last rating a submission gives for a pair.
Submitted(s, user_id, batch) ==
    [c \in Cells |->
        IF c[1] = user_id /\ c[2] \in NamedIn(batch)
        THEN LastRating(batch, c[2]) ELSE s[c]]

RowsChanged(r, r_new) == {c \in Cells : r[c] # r_new[c]}

\* POST /ratings/onboarding for a user that exists.
SaveOnboardingRatings(user_id, batch) ==
    /\ submitted' = Submitted(submitted, user_id, batch)
    /\ IF batch = << >>
       THEN /\ response' = "HTTP 400"
            /\ Committed(ratings, {}, 0)
       ELSE IF FlushFails(PendingObjects(ratings, user_id, batch))
       THEN \* db.rollback()
            /\ response' = "HTTP 500"
            /\ Committed(ratings, {}, 0)
       ELSE LET r == Upserted(ratings, user_id, batch)
                rows == RowsChanged(ratings, r)
            IN /\ stmt_count + Cardinality(rows) <= MaxStatements
               /\ response' = "ok"
               /\ Committed(r, rows, Cardinality(rows))
    /\ UNCHANGED scoringVars

\* INSERT ... ON CONFLICT (attraction_id, user_id) DO NOTHING, row by row:
\* a pair that has a row keeps it.
RECURSIVE InsertDoNothing(_, _)
InsertDoNothing(r, csv) ==
    IF csv = << >> THEN r
    ELSE LET row == Head(csv)
             c == <<row.user_id, row.attraction_id>>
         IN InsertDoNothing(
                IF r[c] = NoRow THEN [r EXCEPT ![c] = row.rating] ELSE r,
                Tail(csv))

\* The last rating a file gives for each pair it names.
RECURSIVE SubmittedCsv(_, _)
SubmittedCsv(s, csv) ==
    IF csv = << >> THEN s
    ELSE LET row == Head(csv)
         IN SubmittedCsv(
                [s EXCEPT ![<<row.user_id, row.attraction_id>>] = row.rating],
                Tail(csv))

\* load_ratings_from_csv: one transaction, one INSERT per line of the file.
LoadRatingsFromCsv(csv) ==
    /\ stmt_count + Len(csv) <= MaxStatements
    /\ submitted' = SubmittedCsv(submitted, csv)
    /\ response' = "loaded"
    /\ LET r == InsertDoNothing(ratings, csv)
       IN Committed(r, RowsChanged(ratings, r), Len(csv))
    /\ UNCHANGED scoringVars

\* ------------------------------------------------------------- the worker
NotRunning == {"idle", "done", "failed"}

Publishing == {"insert", "commit"}

\* TRUNCATE holds an ACCESS EXCLUSIVE lock on user_similarity until the
\* transaction ends.
TableLocked == \E w \in Workers : pc[w] \in Publishing

\* main(): the process starts and runs ensure_queue_and_trigger.
EnsureQueueAndTrigger(w) ==
    /\ pc[w] \in NotRunning
    /\ trigger_installed' = TRUE
    /\ pc' = [pc EXCEPT ![w] = "check"]
    /\ last_id' = [last_id EXCEPT ![w] = 0]
    /\ UNCHANGED <<ratings, queue, next_id, tableVars, sim_df, predVars,
                   stmtVars, recomputes, faults, quiet, late>>
    /\ UNCHANGED <<scoringVars, dataVars>>

\* queue_has_jobs_and_clear, first statement: SELECT id ... ORDER BY id DESC
\* LIMIT 1.  No row: return False, and main returns.
QueueSelect(w) ==
    /\ pc[w] = "check"
    /\ IF queue = {}
       THEN /\ pc' = [pc EXCEPT ![w] = "idle"]
            /\ UNCHANGED <<last_id, recomputes>>
       ELSE /\ last_id' = [last_id EXCEPT ![w] = SetMax(queue)]
            /\ recomputes' = [m \in DOMAIN recomputes |->
                                IF m \in queue THEN recomputes[m] + 1
                                ELSE recomputes[m]]
            /\ pc' = [pc EXCEPT ![w] = "delete"]
    /\ quiet' = [quiet EXCEPT ![w] = TRUE]
    /\ UNCHANGED <<ratings, trigger_installed, queue, next_id, tableVars,
                   sim_df, predVars, stmtVars, faults, late>>
    /\ UNCHANGED <<scoringVars, dataVars>>

\* A DELETE that matches no row.
DrainedNothing(q, last) == q

\* DELETE FROM queue WHERE id <= :last_id
Drained(q, last) == {m \in q : m > last}

\* queue_has_jobs_and_clear, second statement and commit: return True.
QueueDelete(w) ==
    /\ pc[w] = "delete"
    /\ queue' = Drained(queue, last_id[w])
    /\ pc' = [pc EXCEPT ![w] = "load"]
    /\ UNCHANGED <<ratings, trigger_installed, next_id, tableVars, last_id,
                   sim_df, predVars, stmtVars, recomputes, faults, quiet, late>>
    /\ UNCHANGED <<scoringVars, dataVars>>

\* A recompute that publishes the empty table when it has nothing to compute.
RecomputeClears(w) ==
    /\ pc[w] = "load"
    /\ IF RecomputeAborts(ratings)
       THEN /\ pc' = [pc EXCEPT ![w] = "failed"]
            /\ user_similarity' = << >>
            /\ published' = << >>
            /\ UNCHANGED <<sim_df, tx_sim>>
       ELSE /\ sim_df' = [sim_df EXCEPT ![w] = compute_pairwise_similarity(ratings)]
            /\ pc' = [pc EXCEPT ![w] = "save"]
            /\ UNCHANGED tableVars
    /\ UNCHANGED <<ratings, trigger_installed, queue, next_id,
                   last_id, predVars, stmtVars, recomputes, faults, quiet, late>>
    /\ UNCHANGED <<scoringVars, dataVars>>

\* load_ratings, build_user_item_matrix, compute_pairwise_similarity: one read
\* of public.ratings, the rest is local to the process.  SystemExit ends the
\* process when the read or the matrix is too small.
Recompute(w) ==
    /\ pc[w] = "load"
    /\ IF RecomputeAborts(ratings)
       THEN /\ pc' = [pc EXCEPT ![w] = "failed"]
            /\ UNCHANGED sim_df
       ELSE /\ sim_df' = [sim_df EXCEPT ![w] = compute_pairwise_similarity(ratings)]
            /\ pc' = [pc EXCEPT ![w] = "save"]
    /\ UNCHANGED <<ratings, trigger_installed, queue, next_id, tableVars,
                   last_id, predVars, stmtVars, recomputes, faults, quiet, late>>
    /\ UNCHANGED <<scoringVars, dataVars>>

\* A statement run with the connection of engine.begin() autocommits.
AutoCommit(committed, working) == working

\* with engine.begin() as conn: the statements of the block change the table
\* inside the transaction only; the committed table stays as it is.
InTransaction(committed, working) == committed

\* TRUNCATE TABLE issued on public.ratings.
TruncateRatings(w) ==
    /\ pc[w] = "save"
    /\ ratings' = [c \in Cells |-> NoRow]
    /\ pc' = [pc EXCEPT ![w] = IF sim_df[w] = << >> THEN "done" ELSE "insert"]
    /\ UNCHANGED <<trigger_installed, queue, next_id, tableVars, last_id,
                   sim_df, predVars, stmtVars, recomputes, faults, quiet, late>>
    /\ UNCHANGED <<scoringVars, dataVars>>

\* save_user_similarity: engine.begin() and TRUNCATE TABLE user_similarity.
\* An empty sim_df returns without touching the table.
Truncate(w) ==
    /\ pc[w] = "save"
    /\ IF sim_df[w] = << >>
       THEN /\ pc' = [pc EXCEPT ![w] = "done"]
            /\ UNCHANGED <<tx_sim, user_similarity>>
       ELSE /\ ~TableLocked
            /\ tx_sim' = << >>
            /\ user_similarity' = InTransaction(user_similarity, tx_sim')
            /\ pc' = [pc EXCEPT ![w] = "insert"]
    /\ UNCHANGED <<ratings, trigger_installed, queue, next_id,
                   published, last_id, sim_df, predVars, stmtVars, recomputes,
                   faults, quiet, late>>
    /\ UNCHANGED <<scoringVars, dataVars>>

\* One pass of the loop over range(0, len(records), batch_size).
InsertBatch(w) ==
    /\ pc[w] = "insert"
    /\ tx_sim' = tx_sim \o Chunk(sim_df[w], Len(tx_sim))
    /\ user_similarity' = InTransaction(user_similarity, tx_sim')
    /\ pc' = [pc EXCEPT ![w] =
                IF Len(tx_sim) + BatchSize >= Len(sim_df[w]) THEN "commit"
                ELSE "insert"]
    /\ UNCHANGED <<ratings, trigger_installed, queue, next_id,
                   published, last_id, sim_df, predVars, stmtVars, recomputes,
                   faults, quiet, late>>
    /\ UNCHANGED <<scoringVars, dataVars>>

\* A publishing that adds its rows to the rows already in the table.
CommitAppended(committed, working) == committed \o working

\* Leaving the with-block of engine.begin() normally: COMMIT makes the
\* transaction's table the committed one.
CommitTable(committed, working) == working

Commit(w) ==
    /\ pc[w] = "commit"
    /\ user_similarity' = CommitTable(user_similarity, tx_sim)
    /\ published' = Published(sim_df[w])
    /\ tx_sim' = << >>
    /\ pc' = [pc EXCEPT ![w] = "done"]
    /\ last_id' = [last_id EXCEPT ![w] = 0]
    /\ sim_df' = [sim_df EXCEPT ![w] = << >>]
    /\ UNCHANGED <<ratings, trigger_installed, queue, next_id, predVars,
                   stmtVars, recomputes, faults, quiet, late>>
    /\ UNCHANGED <<scoringVars, dataVars>>

\* The exception leaves the rows written so far in the table.
RollbackKeepsRows(committed, working) == working

\* Leaving the with-block of engine.begin() by an exception: ROLLBACK keeps
\* the committed table.
RollbackTable(committed, working) == committed

\* A database error in an INSERT batch or at COMMIT: main logs it and exits 1.
PublishFail(w) ==
    /\ pc[w] \in Publishing
    /\ faults < MaxFaults
    /\ faults' = faults + 1
    /\ user_similarity' = RollbackTable(user_similarity, tx_sim)
    /\ tx_sim' = << >>
    /\ pc' = [pc EXCEPT ![w] = "failed"]
    /\ sim_df' = [sim_df EXCEPT ![w] = << >>]
    /\ UNCHANGED <<ratings, trigger_installed, queue, next_id, published,
                   last_id, predVars, stmtVars, recomputes, quiet, late>>
    /\ UNCHANGED <<scoringVars, dataVars>>

\* ---------------------------------------------------------- the predictor
\* get_recommendations_for_user is called: load_data_from_db issues its SELECT
\* on user_similarity.
PredictorRequest ==
    /\ pred_pc = "idle"
    /\ pred_pc' = "reading"
    /\ UNCHANGED <<ratings, trigger_installed, queue, next_id, tableVars, pc,
                   last_id, sim_df, pred_sim, stmtVars, recomputes, faults,
                   quiet, late>>
    /\ UNCHANGED <<scoringVars, dataVars>>

\* What a READ COMMITTED statement of another session sees of the table.
ReadTable(committed, working) == committed

\* The SELECT returns; it waits while the table is locked.
PredictorRead ==
    /\ pred_pc = "reading"
    /\ ~TableLocked
    /\ pred_sim' = ReadTable(user_similarity, tx_sim)
    /\ pred_pc' = "idle"
    /\ UNCHANGED <<ratings, trigger_installed, queue, next_id, tableVars, pc,
                   last_id, sim_df, stmtVars, recomputes, faults, quiet, late>>
    /\ UNCHANGED <<scoringVars, dataVars>>

\* load_similarity_for_user: the rows that hold the target as user_id_low,
\* renamed to (user_id, similarity) ...
SimLow(target, df) ==
    LET hit == SelectSeq(df, LAMBDA row : row.user_id_low = target)
    IN [k \in 1..Len(hit) |->
           [user_id |-> hit[k].user_id_high, similarity |-> hit[k].similarity]]

\* The lookup that forgets the second orientation.
SimHighMissing(target, df) == << >>

\* ... and the rows that hold it as user_id_high.
SimHigh(target, df) ==
    LET hit == SelectSeq(df, LAMBDA row : row.user_id_high = target)
    IN [k \in 1..Len(hit) |->
           [user_id |-> hit[k].user_id_low, similarity |-> hit[k].similarity]]

\* pd.concat([sim_low, sim_high]).set_index("user_id")["similarity"]: the
\* series, as the sequence of its (index, value) entries.
load_similarity_for_user(target, df) == SimLow(target, df) \o SimHigh(target, df)

\* sim_series.loc[[other]]: the values the series holds at index `other`.
SeriesAt(series, other) ==
    LET hit == SelectSeq(series, LAMBDA e : e.user_id = other)
    IN [k \in 1..Len(hit) |-> hit[k].similarity]

\* ------------------------------------------- the collaborative predictor
\* (scripts/user_cf_db.py)  A ratings table is a function from (user, item)
\* pairs to a rating, NoRow where the pair has no row.
MaxCfItem == 3        \* attraction ids 1..MaxCfItem in the calls of the predictor
MaxTopK == 2          \* top_k in 1..MaxTopK

CfItems == 1..MaxCfItem
CfCells == Users \X CfItems

UsersOf(r) == {c[1] : c \in DOMAIN r}

ItemsOf(r) == {c[2] : c \in DOMAIN r}

\* pivot_table(index="user_id", columns="attraction_id", values="rating"):
\* the users and the items that have a row, each in ascending order; a cell
\* without a row is NaN.
build_user_item_matrix(r) ==
    [index |-> SortedSeq({u \in UsersOf(r) :
                            \E i \in ItemsOf(r) : r[<<u, i>>] # NoRow}),
     columns |-> SortedSeq({i \in ItemsOf(r) :
                            \E u \in UsersOf(r) : r[<<u, i>>] # NoRow}),
     at |-> r]

InSeq(x, s) == \E k \in DOMAIN s : s[k] = x

RECURSIVE SumSeq(_)
SumSeq(s) == IF s = << >> THEN 0 ELSE Head(s) + SumSeq(Tail(s))

Abs(x) == IF x < 0 THEN 0 - x ELSE x

\* Every column of the matrix is a candidate.
every_item(user_item, user_id) == user_item.columns

\* target_ratings[target_ratings.isna()].index.to_list()
unrated_items(user_item, user_id) ==
    SelectSeq(user_item.columns, LAMBDA a : user_item.at[<<user_id, a>>] = NoRow)

\* user_item[attr_id].dropna(): the index of the users that rated the item.
other_ratings(user_item, attr_id) ==
    SelectSeq(user_item.index, LAMBDA v : user_item.at[<<v, attr_id>>] # NoRow)

\* other_ratings.index.intersection(sim_series.index)
common_users(others, sim_series) ==
    SelectSeq(others, LAMBDA v : SeriesAt(sim_series, v) # << >>)

\* sims = sim_series.loc[common_users], one entry per user (the primary key
\* of user_similarity holds each pair once).
Sims(sim_series, common) ==
    [k \in 1..Len(common) |-> Head(SeriesAt(sim_series, common[k]))]

\* The weighted sum divided by the number of contributors.
ScoreMean(user_item, sim_series, attr_id, common) ==
    LET sims == Sims(sim_series, common)
    IN [id |-> attr_id,
        num |-> SumSeq([k \in 1..Len(common) |->
                          sims[k] * user_item.at[<<common[k], attr_id>>]]),
        den |-> NumericScale * Len(common)]

\* (sims * ratings_vals).sum() / sims.abs().sum(), kept exact as a fraction
\* of integers: similarities are in thousandths, which cancel.
Score(user_item, sim_series, attr_id, common) ==
    LET sims == Sims(sim_series, common)
    IN [id |-> attr_id,
        num |-> SumSeq([k \in 1..Len(common) |->
                          sims[k] * user_item.at[<<common[k], attr_id>>]]),
        den |-> SumSeq([k \in 1..Len(common) |-> Abs(sims[k])])]

\* The loop body that gives an item without a usable weight the score 0.
ScoresOfItemOrZero(user_item, sim_series, attr_id) ==
    LET others == other_ratings(user_item, attr_id)
        common == common_users(others, sim_series)
        sc == Score(user_item, sim_series, attr_id, common)
    IN IF sc.den = 0 THEN <<[id |-> attr_id, num |-> 0, den |-> 1]>> ELSE <<sc>>

\* The body of the loop over unrated_items for one item: the scores appended
\* (none after a continue).
ScoresOfItem(user_item, sim_series, attr_id) ==
    LET others == other_ratings(user_item, attr_id)
        common == common_users(others, sim_series)
    IN IF others = << >> THEN << >>
       ELSE IF common = << >> THEN << >>
       ELSE LET sc == Score(user_item, sim_series, attr_id, common)
            IN IF sc.den = 0 THEN << >> ELSE <<sc>>

RECURSIVE ScoresOver(_, _, _)
ScoresOver(user_item, sim_series, items) ==
    IF items = << >> THEN << >>
    ELSE ScoresOfItem(user_item, sim_series, Head(items))
            \o ScoresOver(user_item, sim_series, Tail(items))

\* a.score < b.score, for fractions with positive denominators.
ScoreLess(a, b) == a.num * b.den < b.num * a.den

\* key=lambda x: x[1], reverse=True; ascending=False: a goes before b when
\* its score is the larger one.
ComesBefore(a, b) == ScoreLess(b, a)

\* Inserts x into a sorted sequence after every entry it does not come before
\* (entries of equal score keep their order).
RECURSIVE InsertSorted(_, _)
InsertSorted(x, s) ==
    IF s = << >> THEN <<x>>
    ELSE IF ComesBefore(x, Head(s)) THEN <<x>> \o s
    ELSE <<Head(s)>> \o InsertSorted(x, Tail(s))

\* sorted(scores, ...): a stable sort.
RECURSIVE SortByScore(_)
SortByScore(s) ==
    IF s = << >> THEN << >>
    ELSE InsertSorted(s[Len(s)], SortByScore(SubSeq(s, 1, Len(s) - 1)))

\* seq[:top_k], for top_k >= 0.
Truncated(s, top_k) == SubSeq(s, 1, Min2(top_k, Len(s)))

\* attractions_df[attractions_df["id"].isin(attr_ids_top)] with the score
\* mapped in, sorted by score: the rows of the top scores whose attraction
\* exists.  sort_values("score", ascending=False) runs with the default
\* kind='quicksort', which is not stable: the frames it may return are the
\* arrangements of the rows in non-increasing order of score.
RecDf(attractions_df, scores_sorted) ==
    LET ids == SortedSeq({sc.id : sc \in {scores_sorted[k] : k \in DOMAIN scores_sorted}}
                            \cap attractions_df)
        rec_df == [k \in 1..Len(ids) |->
                     CHOOSE sc \in {scores_sorted[j] : j \in DOMAIN scores_sorted} :
                        sc.id = ids[k]]
    IN {t \in {[k \in 1..Len(rec_df) |-> rec_df[p[k]]] : p \in Orders(Len(rec_df))} :
            \A k \in 1..(Len(t) - 1) : ~ComesBefore(t[k + 1], t[k])}

\* The failures of recommend_user_based (ValueError) and its normal return.
NoRatingsForUser == "no ratings for user"

NoSimilarityData == "no similarity data"

CannotBuild == "cannot build any recommendation"

Returned == "returned"

Raise(condition) == [error |-> condition, rows |-> << >>]

\* sim_series.empty is never true.
SeriesEmptyNever(sim_series) == FALSE

\* sim_series.empty
SeriesEmpty(sim_series) == sim_series = << >>

\* 'not scores' is never true.
NoScoresNever(scores) == FALSE

\* not scores
NoScores(scores) == scores = << >>

\* The outcomes a call may have: one failure, or the frames rec_df may be.
recommend_user_based(user_item, attractions_df, df, user_id, top_k) ==
    IF ~InSeq(user_id, user_item.index) THEN {Raise(NoRatingsForUser)}
    ELSE LET sim_series == load_similarity_for_user(user_id, df)
         IN IF SeriesEmpty(sim_series) THEN {Raise(NoSimilarityData)}
            ELSE LET scores == ScoresOver(user_item, sim_series,
                                          unrated_items(user_item, user_id))
                     scores_sorted == Truncated(SortByScore(scores), top_k)
                 IN IF NoScores(scores) THEN {Raise(CannotBuild)}
                    ELSE {[error |-> Returned, rows |-> rec_df] :
                             rec_df \in RecDf(attractions_df, scores_sorted)}

\* get_recommendations_for_user once load_data_from_db has returned.
RecommendUserBased ==
    /\ cf_out = NoResult
    /\ cf_in # NoCfCall
    /\ cf_out' \in recommend_user_based(build_user_item_matrix(cf_in.ratings_df),
                                         cf_in.attractions_df, cf_in.sim_df,
                                         cf_in.user_id, cf_in.top_k)
    /\ UNCHANGED <<cacheVars, cf_in, fly_out, whVars, csVars, dataVars>>

\* ------------------------------------------- the predictor without the cache
\* (scripts/user_cf.py)  cosine_similarity(user_item_filled.values), row of the
\* target: per user of the index the dot product with the target and the
\* squared norm of the user's vector.  The cosine is
\* dot / sqrt(norm2 * norm2 of the target); it is kept as this pair, exact.
FilledAt(user_item, u, i) ==
    IF user_item.at[<<u, i>>] = NoRow THEN 0 ELSE user_item.at[<<u, i>>]

MatrixDot(user_item, u, v) ==
    SumSeq([k \in 1..Len(user_item.columns) |->
               FilledAt(user_item, u, user_item.columns[k])
                   * FilledAt(user_item, v, user_item.columns[k])])

target_sims(user_item, user_id) ==
    [k \in 1..Len(user_item.index) |->
        [user_id |-> user_item.index[k],
         dot |-> MatrixDot(user_item, user_id, user_item.index[k]),
         norm2 |-> MatrixDot(user_item, user_item.index[k], user_item.index[k])]]

\* sim_series.drop(index=user_id)
DropSelf(series, user_id) == SelectSeq(series, LAMBDA e : e.user_id # user_id)

\* The body of the loop over unrated_items: the score is kept as its terms,
\* one per user of common_users, with the user's weight and rating.
\* denom == 0 when every cosine is 0.
FlyScoresOfItem(user_item, sim_series, attr_id) ==
    LET others == other_ratings(user_item, attr_id)
        common == SelectSeq(others,
                      LAMBDA v : \E k \in DOMAIN sim_series : sim_series[k].user_id = v)
        terms == [k \in 1..Len(common) |->
                    LET e == CHOOSE x \in {sim_series[j] : j \in DOMAIN sim_series} :
                                x.user_id = common[k]
                    IN [user_id |-> e.user_id, dot |-> e.dot, norm2 |-> e.norm2,
                        rating |-> user_item.at[<<common[k], attr_id>>]]]
    IN IF others = << >> THEN << >>
       ELSE IF common = << >> THEN << >>
       ELSE IF \A k \in DOMAIN terms : terms[k].dot = 0 THEN << >>
       ELSE <<[id |-> attr_id, terms |-> terms]>>

RECURSIVE FlyScoresOver(_, _, _)
FlyScoresOver(user_item, sim_series, items) ==
    IF items = << >> THEN << >>
    ELSE FlyScoresOfItem(user_item, sim_series, Head(items))
            \o FlyScoresOver(user_item, sim_series, Tail(items))

Sign(x) == IF x > 0 THEN 1 ELSE IF x < 0 THEN 0 - 1 ELSE 0

\* The terms of a score that carry weight.
Weighted(row) == {t \in {row.terms[k] : k \in DOMAIN row.terms} : t.dot > 0}

\* The sign of alpha * w(p) + beta * w(q) for the weights
\* w(e) = e.dot / sqrt(e.norm2) > 0, decided on the squares.
SignLin(alpha, p, beta, q) ==
    IF alpha >= 0 /\ beta >= 0 THEN Sign(alpha + beta)
    ELSE IF alpha <= 0 /\ beta <= 0 THEN 0 - 1
    ELSE LET x == alpha * alpha * p.dot * p.dot * q.norm2
             y == beta * beta * q.dot * q.dot * p.norm2
         IN IF alpha > 0 THEN Sign(x - y) ELSE Sign(y - x)

\* The sign of score(x) - score(y).  With N = sum of weight * rating and
\* D = sum of weight, it is the sign of N(x) D(y) - N(y) D(x), a quadratic
\* form in the weights of the users; for the terms of at most two users the
\* form is a positive factor times a linear one.
ScoreSign(x, y) ==
    LET W == Weighted(x) \cup Weighted(y)
        U == {t.user_id : t \in W}
        Of(v) == CHOOSE t \in W : t.user_id = v
        Q(v, u) == IF /\ \E t \in Weighted(x) : t.user_id = v
                      /\ \E s \in Weighted(y) : s.user_id = u
                   THEN (CHOOSE t \in Weighted(x) : t.user_id = v).rating
                            - (CHOOSE s \in Weighted(y) : s.user_id = u).rating
                   ELSE 0
    IN CASE Cardinality(U) = 1 ->
                LET v == CHOOSE v \in U : TRUE IN Sign(Q(v, v))
         [] Cardinality(U) = 2 ->
                LET v1 == CHOOSE v \in U : \A u \in U : v <= u
                    v2 == CHOOSE v \in U : v # v1
                    A == Q(v1, v1)
                    B == Q(v1, v2) + Q(v2, v1)
                    C == Q(v2, v2)
                IN IF C = 0 THEN SignLin(A, Of(v1), B, Of(v2))
                   ELSE IF A = 0 THEN SignLin(B, Of(v1), C, Of(v2))
                   ELSE SignLin(A, Of(v1), C, Of(v2))

\* key=lambda x: x[1], reverse=True; ascending=False
FlyComesBefore(a, b) == ScoreSign(a, b) = 1

RECURSIVE FlyInsertSorted(_, _)
FlyInsertSorted(x, s) ==
    IF s = << >> THEN <<x>>
    ELSE IF FlyComesBefore(x, Head(s)) THEN <<x>> \o s
    ELSE <<Head(s)>> \o FlyInsertSorted(x, Tail(s))

\* sorted(scores, ...): a stable sort.
RECURSIVE FlySortByScore(_)
FlySortByScore(s) ==
    IF s = << >> THEN << >>
    ELSE FlyInsertSorted(s[Len(s)], FlySortByScore(SubSeq(s, 1, Len(s) - 1)))

\* rec_df, as in RecDf.
FlyRecDf(attractions_df, scores_sorted) ==
    LET ids == SortedSeq({sc.id : sc \in {scores_sorted[k] : k \in DOMAIN scores_sorted}}
                            \cap attractions_df)
        rec_df == [k \in 1..Len(ids) |->
                     CHOOSE sc \in {scores_sorted[j] : j \in DOMAIN scores_sorted} :
                        sc.id = ids[k]]
    IN {t \in {[k \in 1..Len(rec_df) |-> rec_df[p[k]]] : p \in Orders(Len(rec_df))} :
            \A k \in 1..(Len(t) - 1) : ~FlyComesBefore(t[k + 1], t[k])}

AlreadyRatedAll == "user has rated every item"

\* not unrated_items
NothingUnrated(items) == items = << >>

\* recommend_user_based of scripts/user_cf.py: the outcomes a call may have.
recommend_user_based_on_the_fly(user_item, attractions_df, user_id, top_k) ==
    IF ~InSeq(user_id, user_item.index) THEN {Raise(NoRatingsForUser)}
    ELSE LET items == unrated_items(user_item, user_id)
             sim_series == DropSelf(target_sims(user_item, user_id), user_id)
             scores == FlyScoresOver(user_item, sim_series, items)
             scores_sorted == Truncated(FlySortByScore(scores), top_k)
         IN IF NothingUnrated(items) THEN {Raise(AlreadyRatedAll)}
            ELSE IF scores = << >> THEN {Raise(CannotBuild)}
            ELSE {[error |-> Returned, rows |-> rec_df] :
                     rec_df \in FlyRecDf(attractions_df, scores_sorted)}

\* main of scripts/user_cf.py once load_data_from_db has returned, on the
\* frames of the call.
RecommendOnTheFly ==
    /\ fly_out = NoResult
    /\ cf_in # NoCfCall
    /\ fly_out' \in recommend_user_based_on_the_fly(
                        build_user_item_matrix(cf_in.ratings_df),
                        cf_in.attractions_df, cf_in.user_id, cf_in.top_k)
    /\ UNCHANGED <<cacheVars, cf_in, cf_out, whVars, csVars, dataVars>>

\* ------------------------------------------------- the feature encoder
\* (scripts/check_db.py)  A string is a sequence of symbols: single characters,
\* and the word 'Круглосуточно' as one symbol, written "AlwaysOpen".
MaxWhLen == 5         \* longest working-hours string drawn

Digits == {"1", "2", "6"}

DigitValue(ch) == IF ch = "1" THEN 1 ELSE IF ch = "2" THEN 2 ELSE 6

WhAlphabet == Digits \cup {":", "-", " ", "x", "AlwaysOpen"}

\* str.lower(), symbol by symbol.
LowerSymbol(ch) ==
    CASE ch = "AlwaysOpen" -> "alwaysopen"
      [] ch = "Moscow" -> "moscow"
      [] ch = "Kazan" -> "kazan"
      [] ch = "Historic" -> "historic"
      [] ch = "Architectural" -> "architectural"
      [] ch = "Walking" -> "walking"
      [] ch = "Car" -> "car"
      [] ch = "Free" -> "free"
      [] ch = "Paid" -> "paid"
      [] OTHER -> ch

Lower(str) == [k \in 1..Len(str) |-> LowerSymbol(str[k])]

\* sep in str
Contains(str, sep) == \E k \in DOMAIN str : str[k] = sep

\* str.split(sep): the pieces between the separators, empty pieces included.
RECURSIVE Split(_, _)
Split(str, sep) ==
    IF ~Contains(str, sep) THEN <<str>>
    ELSE LET k == CHOOSE j \in DOMAIN str :
                     str[j] = sep /\ \A i \in 1..(j - 1) : str[i] # sep
         IN <<SubSeq(str, 1, k - 1)>> \o Split(SubSeq(str, k + 1, Len(str)), sep)

\* str.strip(), as int() applies it to its argument.
RECURSIVE Strip(_)
Strip(str) ==
    IF str = << >> THEN str
    ELSE IF Head(str) = " " THEN Strip(Tail(str))
    ELSE IF str[Len(str)] = " " THEN Strip(SubSeq(str, 1, Len(str) - 1))
    ELSE str

RECURSIVE DecimalValue(_)
DecimalValue(str) ==
    IF str = << >> THEN 0
    ELSE 10 * DecimalValue(SubSeq(str, 1, Len(str) - 1)) + DigitValue(str[Len(str)])

\* An exception raised inside the try block.
ValueError == 0 - 1

\* int(str): the number, or ValueError for anything but digits between
\* optional spaces.
IntOf(str) ==
    LET t == Strip(str)
    IN IF t # << >> /\ \A k \in DOMAIN t : t[k] \in Digits
       THEN DecimalValue(t) ELSE ValueError

\* int(condition)
BoolInt(b) == IF b THEN 1 ELSE 0

\* The try block: None when it falls through without a return.
None == 0 - 2

\* The try block with a range that ends before it starts read as one that
\* wraps past midnight.
TryBlockWrapping(s, desired_period) ==
    IF ~Contains(s, "-") THEN None
    ELSE LET parts == Split(s, "-")
         IN IF Len(parts) # 2 THEN ValueError
            ELSE LET h1 == IntOf(Head(Split(parts[1], ":")))
                     h2 == IntOf(Head(Split(parts[2], ":")))
                     hours == IF h1 <= h2 THEN h1..h2
                              ELSE (h1..23) \cup (0..h2)
                 IN IF h1 = ValueError \/ h2 = ValueError THEN ValueError
                    ELSE IF desired_period = "morning"
                         THEN BoolInt(hours \cap (6..11) # {})
                    ELSE IF desired_period = "afternoon"
                         THEN BoolInt(hours \cap (12..16) # {})
                    ELSE IF desired_period = "evening"
                         THEN BoolInt(hours \cap (17..21) # {})
                    ELSE IF desired_period = "night"
                         THEN BoolInt((h1 <= 23 /\ h2 >= 22) \/ h1 <= 5)
                    ELSE None

TryBlock(s, desired_period) ==
    IF ~Contains(s, "-") THEN None
    ELSE LET parts == Split(s, "-")
         IN IF Len(parts) # 2 THEN ValueError
            ELSE LET h1 == IntOf(Head(Split(parts[1], ":")))
                     h2 == IntOf(Head(Split(parts[2], ":")))
                 IN IF h1 = ValueError \/ h2 = ValueError THEN ValueError
                    ELSE IF desired_period = "morning"
                         THEN BoolInt(~(h2 < 6 \/ h1 > 11))
                    ELSE IF desired_period = "afternoon"
                         THEN BoolInt(~(h2 < 12 \/ h1 > 16))
                    ELSE IF desired_period = "evening"
                         THEN BoolInt(~(h2 < 17 \/ h1 > 21))
                    ELSE IF desired_period = "night"
                         THEN BoolInt((h1 <= 23 /\ h2 >= 22) \/ h1 <= 5)
                    ELSE None

\* The exception leaves the function.
Propagated(outcome) == outcome

\* except Exception: return 0; and the final return 0.
Caught(outcome) == IF outcome \in {ValueError, None} THEN 0 ELSE outcome

parse_working_hours_flag(wh_str, desired_period) ==
    LET s == Lower(wh_str)
    IN IF Contains(s, "alwaysopen") THEN 1
       ELSE IF desired_period = "anytime" THEN 1
       ELSE Caught(TryBlock(s, desired_period))

\* ------------------------------------------------- the content scorer
\* (scripts/check_db.py)
\* str.replace(',', ' ')
CommasToSpaces(str) == [k \in 1..Len(str) |-> IF str[k] = "," THEN " " ELSE str[k]]

\* The length of the longest prefix of str without a space.
RECURSIVE WordLen(_)
WordLen(str) ==
    IF str = << >> \/ Head(str) = " " THEN 0 ELSE 1 + WordLen(Tail(str))

\* str.split(): the words between runs of spaces, none of them empty.
RECURSIVE Words(_)
Words(str) ==
    IF str = << >> THEN << >>
    ELSE IF Head(str) = " " THEN Words(Tail(str))
    ELSE LET n == WordLen(str)
         IN <<SubSeq(str, 1, n)>> \o Words(SubSeq(str, n + 1, Len(str)))

\* [t.strip().lower() for t in str.replace(',', ' ').split()]
transport_tokens(transport_str) ==
    LET words == Words(CommasToSpaces(transport_str))
    IN [k \in 1..Len(words) |-> Lower(Strip(words[k]))]

type_tokens(type_str) ==
    LET words == Words(CommasToSpaces(type_str))
    IN [k \in 1..Len(words) |-> Lower(Strip(words[k]))]

\* The key f"{field}={value}" of a feature dictionary.
Feature(field, value) == [field |-> field, value |-> value]

SeqToSet(s) == {s[k] : k \in DOMAIN s}

\* item_to_feature_dict: the keys set to 1, and the two numeric features.
item_to_feature_dict(row, desired_period) ==
    [ones |-> {Feature("transport", t) :
                  t \in SeqToSet(transport_tokens(row.transport))}
              \cup {Feature("type", t) : t \in SeqToSet(type_tokens(row.type))}
              \cup {Feature("price", Lower(row.price)),
                    Feature("city", Lower(row.city))},
     rating |-> row.rating,
     open_in_period |-> parse_working_hours_flag(row.working_hours,
                                                 desired_period)]

\* df['rating'].max() and .min() over the rows of a frame that has rows.
MaxOfRatings(df) == SetMax({df[k].rating : k \in DOMAIN df})

MinOfRatings(df) ==
    CHOOSE m \in {df[k].rating : k \in DOMAIN df} :
        \A k \in DOMAIN df : m <= df[k].rating

\* The dictionary built from user_preferences: a field that is absent or
\* empty adds no key.
UserFeatureDict(df, user_preferences) ==
    [ones |-> (IF user_preferences.city # << >>
               THEN {Feature("city", Lower(user_preferences.city))} ELSE {})
              \cup (IF user_preferences.type # << >>
                    THEN {Feature("type", t) :
                             t \in SeqToSet(type_tokens(user_preferences.type))}
                    ELSE {})
              \cup (IF user_preferences.transport # << >>
                    THEN {Feature("transport", t) :
                             t \in SeqToSet(transport_tokens(user_preferences.transport))}
                    ELSE {})
              \cup (IF user_preferences.price # << >>
                    THEN {Feature("price", Lower(user_preferences.price))}
                    ELSE {}),
     rating |-> IF user_preferences.min_rating # NoMinRating
                THEN user_preferences.min_rating ELSE MaxOfRatings(df),
     open_in_period |-> 1]

\* MinMaxScaler: data_max_ - data_min_, a zero range replaced by 1.
DataRange(df) ==
    IF MaxOfRatings(df) = MinOfRatings(df) THEN 1
    ELSE MaxOfRatings(df) - MinOfRatings(df)

\* cosine_similarity of one item row with the user row, after the rating
\* column was scaled to (rating - data_min_) / range.  With every coordinate
\* multiplied by range the value is num / (sqrt(item2) * sqrt(user2)), kept
\* exact as these three integers.
CosineScore(item, user, lo, range) ==
    LET p == item.rating - lo
        q == user.rating - lo
    IN [num |-> (Cardinality(item.ones \cap user.ones) + item.open_in_period)
                    * range * range + p * q,
        item2 |-> (Cardinality(item.ones)
                    + item.open_in_period * item.open_in_period)
                    * range * range + p * p,
        user2 |-> (Cardinality(user.ones) + 1) * range * range + q * q]

\* a.score < b.score for two rows of one call (user2 is the same in both):
\* num / sqrt(item2) compared by sign and by squares.
CosineLess(a, b) ==
    IF a.num < 0 /\ b.num >= 0 THEN TRUE
    ELSE IF a.num >= 0 /\ b.num < 0 THEN FALSE
    ELSE IF a.num >= 0
         THEN a.num * a.num * b.item2 < b.num * b.num * a.item2
         ELSE a.num * a.num * b.item2 > b.num * b.num * a.item2

\* sort_values('score', ascending=False): a goes before b when its score is
\* the larger one.
RowBefore(a, b) == CosineLess(b, a)

\* sort_values('score', ascending=False) with the default kind='quicksort':
\* the rows in descending order of score.  The algorithm is not stable, so
\* rows of equal score come out in any order.
SortOutcomes(s) ==
    {t \in {[k \in 1..Len(s) |-> s[p[k]]] : p \in Orders(Len(s))} :
        \A k \in 1..(Len(t) - 1) : ~RowBefore(t[k + 1], t[k])}

\* df_result[df_result['rating'] >= min_rating], when min_rating is given.
MinRatingFilter(rows, user_preferences) ==
    IF user_preferences.min_rating = NoMinRating THEN rows
    ELSE SelectSeq(rows, LAMBDA row : row.rating >= user_preferences.min_rating)

\* MinMaxScaler.fit_transform on the column of a frame without rows: sklearn
\* requires at least one sample and raises ValueError.
RejectsNoSample(df) == df = << >>

\* The scores computed over the rows that pass the min_rating filter only.
ScoredAfterFilter(df, user_preferences) ==
    LET keep == SelectSeq([k \in 1..Len(df) |-> k],
                          LAMBDA k : \/ user_preferences.min_rating = NoMinRating
                                     \/ df[k].rating >= user_preferences.min_rating)
        sub == [j \in 1..Len(keep) |-> df[keep[j]]]
        user == UserFeatureDict(sub, user_preferences)
        score == [j \in 1..Len(keep) |->
                     CosineScore(item_to_feature_dict(sub[j],
                                     user_preferences.desired_period),
                                 user, MinOfRatings(sub), DataRange(sub))]
    IN [j \in 1..Len(keep) |->
           [index |-> keep[j], rating |-> sub[j].rating, num |-> score[j].num,
            item2 |-> score[j].item2, user2 |-> score[j].user2]]

\* df_result: the rows of df with the column score, the cosine of each item
\* with the user over the whole frame.
ScoredFrame(df, user_preferences) ==
    LET user == UserFeatureDict(df, user_preferences)
        lo == MinOfRatings(df)
        range == DataRange(df)
        score == [k \in 1..Len(df) |->
                     CosineScore(item_to_feature_dict(df[k],
                                     user_preferences.desired_period),
                                 user, lo, range)]
    IN [k \in 1..Len(df) |->
           [index |-> k, rating |-> df[k].rating, num |-> score[k].num,
            item2 |-> score[k].item2, user2 |-> score[k].user2]]

\* The outcomes of a call: the exception, or one result for each order the
\* sort can leave the rows in.
recommend_cosine(df, user_preferences, top_k) ==
    IF RejectsNoSample(df) THEN {[error |-> "ValueError", rows |-> << >>]}
    ELSE LET df_result == MinRatingFilter(ScoredFrame(df, user_preferences),
                                          user_preferences)
         IN {[error |-> Returned, rows |-> Truncated(df_sorted, top_k)] :
                df_sorted \in SortOutcomes(df_result)}

\* One call of recommend_cosine.
RecommendCosine ==
    /\ cs_out = NoResult
    /\ cs_in # NoCsCall
    /\ cs_out' \in recommend_cosine(cs_in.df, cs_in.user_preferences,
                                    cs_in.top_k)
    /\ UNCHANGED <<cacheVars, cfVars, whVars, cs_in, dataVars>>

\* ------------------------------------------------------------------- next
StatementKinds == {"INSERT", "UPDATE", "DELETE"}

\* The ratings the statements of a behaviour write (the seed holds others).
WrittenRatings == {MaxRating}

Mutate ==
    \E kind \in StatementKinds, u \in Users, S \in (SUBSET Items) \ {{}},
       v \in WrittenRatings :
        RatingStatement(kind, u, S, v)

WorkerStep(w) ==
    \/ EnsureQueueAndTrigger(w)
    \/ QueueSelect(w)
    \/ QueueDelete(w)
    \/ Recompute(w)
    \/ Truncate(w)
    \/ InsertBatch(w)
    \/ Commit(w)
    \/ PublishFail(w)

Next ==
    \/ Mutate
    \/ \E w \in Workers : WorkerStep(w)
    \/ PredictorRequest
    \/ PredictorRead

Spec == Init /\ [][Next]_vars

\* One worker process, started again and again (a timer), that runs on once
\* started, and a predictor that keeps serving requests.  Statements on
\* ratings and database faults are not forced.
FirstWorker == CHOOSE w \in Workers : \A v \in Workers : w <= v

LiveNext ==
    \/ Mutate
    \/ WorkerStep(FirstWorker)
    \/ PredictorRequest
    \/ PredictorRead

LiveSpec ==
    /\ Init
    /\ [][LiveNext]_vars
    /\ WF_vars(WorkerStep(FirstWorker))
    /\ WF_vars(PredictorRequest)
    /\ WF_vars(PredictorRead)

\* ------------------------------------------- calls of the predictor
\* The ratings when the worker last published: any table of top ratings on
\* the first MaxItem attractions, or the table of the single-contributor
\* scenario.
ScenarioRatings ==
    [c \in Cells |->
        IF c = <<1, 1>> THEN MaxRating
        ELSE IF c = <<2, 1>> THEN MinRating
        ELSE IF c = <<1, 2>> THEN MaxRating - 1
        ELSE NoRow]

RatingsAtPublish == [Cells -> {NoRow, MaxRating}] \cup {ScenarioRatings}

\* The ratings submitted since on the newest attraction, per user.
NewestColumn == [Users -> {NoRow, MinRating, MaxRating}]

\* public.ratings as load_data_from_db reads it.
RatingsRead(r0, col) ==
    [c \in CfCells |-> IF c[2] \in Items THEN r0[c] ELSE col[c[1]]]

\* public.attractions holds every attraction, or all but one that
\* delete_attraction removed: ratings has no foreign key, so the ratings of a
\* deleted attraction stay.
AttractionSets == {CfItems} \cup {CfItems \ {i} : i \in CfItems}

CfInit ==
    /\ CacheInit
    /\ DataIdle
    /\ WhIdle
    /\ CsIdle
    /\ cf_out = NoResult
    /\ fly_out = NoResult
    /\ \E r0 \in RatingsAtPublish, col \in NewestColumn, ran \in BOOLEAN,
          att \in AttractionSets, u \in Users, k \in 1..MaxTopK :
          cf_in = [ratings_df |-> RatingsRead(r0, col),
                   attractions_df |-> att,
                   sim_df |-> IF ran
                              THEN Published(compute_pairwise_similarity(r0))
                              ELSE << >>,
                   user_id |-> u,
                   top_k |-> k]

CfNext == RecommendUserBased

CfSpec == CfInit /\ [][CfNext]_vars

\* ------------------------------------------- calls of the working-hours rule
WhStrings == UNION {[1..n -> WhAlphabet] : n \in 0..MaxWhLen}

\* The periods of the docstring of recommend_cosine, and the value
\* scripts/check.py passes.
DesiredPeriods ==
    {"morning", "afternoon", "evening", "night", "anytime", "19:00-21:00"}

WhInit ==
    /\ CacheInit
    /\ DataIdle
    /\ CfIdle
    /\ CsIdle
    /\ wh_out = NoFlag
    /\ \E str \in WhStrings, period \in DesiredPeriods :
          wh_in = [wh_str |-> str, desired_period |-> period]

\* item_to_feature_dict computes d["open_in_period"] for one row.
ParseWorkingHoursFlag ==
    /\ wh_out = NoFlag
    /\ wh_in # NoWhCall
    /\ LET flag == parse_working_hours_flag(wh_in.wh_str, wh_in.desired_period)
       IN wh_out' = IF flag = ValueError
                    THEN [error |-> "ValueError", value |-> 0]
                    ELSE [error |-> Returned, value |-> flag]
    /\ UNCHANGED <<cacheVars, cfVars, csVars, wh_in, dataVars>>

WhNext == ParseWorkingHoursFlag

WhSpec == WhInit /\ [][WhNext]_vars

\* ------------------------------------------- calls of the content scorer
MaxDfLen == 3         \* most rows in the frame read from attractions

\* Rows of public.attractions as get_data_from_db returns them (NULL text
\* read as '', NULL rating as 0): two rows after scripts/check.py, a row of
\* another city with two types, a row whose hours do not parse, and the row
\* POST /attractions creates from a name alone.
Catalogue ==
    {[city |-> <<"Moscow">>, type |-> <<"Historic">>,
      transport |-> <<"Walking", ",", " ", "Car">>, price |-> <<"Free">>,
      working_hours |-> <<"AlwaysOpen">>, rating |-> 5],
     [city |-> <<"Moscow">>, type |-> <<"Architectural">>,
      transport |-> <<"Walking", ",", " ", "Car">>, price |-> <<"Paid">>,
      working_hours |-> <<"1", "2", "-", "1", "6">>, rating |-> 5],
     [city |-> <<"Kazan">>, type |-> <<"Architectural", ",", " ", "Historic">>,
      transport |-> <<"Car">>, price |-> <<"Paid">>,
      working_hours |-> <<"1", "1", "-", "2", "1">>, rating |-> 3],
     [city |-> <<"Moscow">>, type |-> <<"Historic">>,
      transport |-> <<"Walking">>, price |-> <<"Free">>,
      working_hours |-> <<"x">>, rating |-> 4],
     [city |-> << >>, type |-> << >>, transport |-> << >>, price |-> << >>,
      working_hours |-> << >>, rating |-> 0]}

Frames == UNION {[1..n -> Catalogue] : n \in 0..MaxDfLen}

\* The dictionaries get_recommendations builds from a RecommendationRequest:
\* a text field is given or left out, min_rating is left out or within its
\* validated range.
Preferences ==
    [city : {<< >>, <<"Moscow">>},
     type : {<< >>, <<"Architectural">>},
     transport : {<< >>, <<"Walking">>},
     price : {<< >>, <<"Paid">>},
     desired_period : {"anytime", "evening"},
     min_rating : {NoMinRating, 0, 4}]

ContentInit ==
    /\ CacheInit
    /\ DataIdle
    /\ CfIdle
    /\ WhIdle
    /\ cs_out = NoResult
    /\ \E df \in Frames, prefs \in Preferences, k \in 1..MaxTopK :
          cs_in = [df |-> df, user_preferences |-> prefs, top_k |-> k]

ContentNext == RecommendCosine

ContentSpec == ContentInit /\ [][ContentNext]_vars

\* ------------------------------------------- sequences of submissions
RatingInputs == [attraction_id : Items, rating : {MinRating, MaxRating}]

Batches == UNION {[1..n -> RatingInputs] : n \in 0..MaxBatchLen}

CsvRows ==
    [attraction_id : Items, user_id : Users, rating : {MinRating, MaxRating}]

CsvFiles == UNION {[1..n -> CsvRows] : n \in 1..MaxBatchLen}

RatingsInit == CacheInit /\ ScoringIdle /\ DataIdle

RatingsNext ==
    \/ \E u \in Users, batch \in Batches : SaveOnboardingRatings(u, batch)
    \/ \E csv \in CsvFiles : LoadRatingsFromCsv(csv)

RatingsSpec == RatingsInit /\ [][RatingsNext]_vars

\* ------------------------------------------- the recommendation core
\* One worker process, the predictor and the content scorer at work while
\* ratings are written, in a database where both triggers of public.ratings
\* can exist.  The scoring functions are called once each, on frames their
\* callers read before.
CoreInit ==
    /\ CacheInit
    /\ DataInit(TRUE)
    /\ WhIdle
    /\ cf_out = NoResult
    /\ fly_out = NoResult
    /\ cs_out = NoResult
    /\ \E u \in Users \ {MaxUser} :
          cf_in = [ratings_df |-> RatingsRead(ScenarioRatings,
                                              [x \in Users |-> NoRow]),
                   attractions_df |-> CfItems,
                   sim_df |-> Published(
                                 compute_pairwise_similarity(ScenarioRatings)),
                   user_id |-> u,
                   top_k |-> MaxTopK]
    /\ \E row \in {c \in Catalogue : c.rating = MaxRating} :
          cs_in = [df |-> <<row>>,
                   user_preferences |->
                       [NoPreferences EXCEPT !.desired_period = "evening"],
                   top_k |-> MaxTopK]

CoreNext ==
    \/ Mutate
    \/ WorkerStep(FirstWorker)
    \/ PredictorRequest
    \/ PredictorRead
    \/ RecommendUserBased
    \/ RecommendCosine

CoreSpec == CoreInit /\ [][CoreNext]_vars

\* ------------------------------------------- cycles after deletions
\* The worker has published the table of the seed ratings; since then the
\* rows of some users, of all of them or of none were deleted from ratings,
\* and the last statement left its marker.  Worker processes and the
\* predictor run on from there.
KeptUsers == SUBSET Users

DeletionsInit ==
    /\ \E S \in KeptUsers :
          ratings = [c \in Cells |-> IF c[1] \in S THEN SeedRatings[c] ELSE NoRow]
    /\ trigger_installed = TRUE
    /\ queue = {1}
    /\ next_id = 2
    /\ user_similarity = Published(compute_pairwise_similarity(SeedRatings))
    /\ published = user_similarity
    /\ tx_sim = << >>
    /\ pc = [w \in Workers |-> "idle"]
    /\ last_id = [w \in Workers |-> 0]
    /\ sim_df = [w \in Workers |-> << >>]
    /\ pred_pc = "idle"
    /\ pred_sim = user_similarity
    /\ stmt_count = MaxStatements
    /\ last_rows = 1
    /\ recomputes = [m \in 1..MaxStatements |-> 0]
    /\ faults = 0
    /\ quiet = [w \in Workers |-> FALSE]
    /\ late = {}
    /\ ScoringIdle
    /\ DataIdle

DeletionsNext ==
    \/ \E w \in Workers : WorkerStep(w)
    \/ PredictorRequest
    \/ PredictorRead

DeletionsSpec == DeletionsInit /\ [][DeletionsNext]_vars

\* ------------------------------------------- the two predictors on one call
\* The worker has published the table of the ratings the predictors read, or
\* nothing when these have fewer than two users.  The ratings are lowest and
\* highest ratings by the users of the seed, so that a score has the terms
\* of at most two users.
SeedUsers == {u \in Users : \E i \in Items : SeedRatings[<<u, i>>] # NoRow}

AgreeRatings ==
    {r \in [Cells -> {NoRow, MinRating, MaxRating}] :
        \A c \in Cells : c[1] \notin SeedUsers => r[c] = NoRow}

AgreeInit ==
    /\ CacheInit
    /\ DataIdle
    /\ WhIdle
    /\ CsIdle
    /\ cf_out = NoResult
    /\ fly_out = NoResult
    /\ \E r0 \in AgreeRatings, u \in SeedUsers, k \in 1..MaxTopK :
          cf_in = [ratings_df |-> RatingsRead(r0, [x \in Users |-> NoRow]),
                   attractions_df |-> CfItems,
                   sim_df |-> Published(compute_pairwise_similarity(r0)),
                   user_id |-> u,
                   top_k |-> k]

AgreeNext ==
    \/ RecommendUserBased
    \/ RecommendOnTheFly

AgreeSpec == AgreeInit /\ [][AgreeNext]_vars

\* ================================================================ claims
Ran(w) == pc[w] # pc'[w] \/ tx_sim # tx_sim'

\* The table computed from the current contents of ratings, as stored.
FreshTable == Published(compute_pairwise_similarity(ratings))

SamePair(a, b) ==
    {a.user_id_low, a.user_id_high} = {b.user_id_low, b.user_id_high}

\* C1: Draining boundary.  No step of a cycle removes a marker with an id
\* larger than the id its SELECT read, so a marker inserted after that read
\* stays queued; and no marker inserted while a cycle was under way makes
\* more than one later cycle run a recompute.
C1_DrainingBoundary ==
    [][/\ \A w \in Workers :
            (pc[w] \in InCycle /\ Ran(w)) =>
                \A m \in queue : m > last_id[w] => m \in queue'
       /\ \A m \in late' : recomputes'[m] <= 1]_vars

\* C2: when a cycle has failed, the marker that triggered it is still queued.
C2_MarkersKeptOnFailure ==
    \A w \in Workers : pc[w] = "failed" => last_id[w] \in queue

\* C3: atomic publish.  Whatever the predictor's SELECT returns, at whatever
\* point of a Publishing it was issued, is the last table published in full.
C3_AtomicPublish ==
    [][(pred_pc = "reading" /\ pred_pc' = "idle") => pred_sim' = published]_vars

\* C3 witness: a SELECT is waiting while a Publishing has inserted a part of
\* the new table over a table published before.
C3_Witness ==
    /\ pred_pc = "reading"
    /\ \E w \in Workers :
          /\ pc[w] = "insert"
          /\ 0 < Len(tx_sim)
          /\ Len(tx_sim) < Len(sim_df[w])
    /\ published # << >>
    /\ published # tx_sim

\* C4: a Publishing that fails after the table was cleared leaves exactly the
\* entries published before.
C4_RollbackKeepsTable ==
    [][faults' # faults =>
          /\ user_similarity' = published
          /\ user_similarity' = user_similarity]_vars

\* C4 witness: a cycle failed after inserting, over a table published before.
C4_Witness ==
    /\ faults > 0
    /\ \E w \in Workers : pc[w] = "failed"
    /\ user_similarity # << >>
    /\ user_similarity = published

\* C5: after the last rating mutation the table is eventually the one computed
\* from the current ratings (whenever these have the two users a table needs),
\* and the predictor's reads return it.  Stated for the behaviours in which
\* the trigger was installed before the first statement, so that every
\* statement left its marker.
C5_FreshnessRestored ==
    (stmt_count = MaxStatements /\ last_rows > 0 /\ next_id > MaxStatements)
        ~> [](RecomputeAborts(ratings) \/
              (user_similarity = FreshTable /\
               (pred_pc = "idle" => pred_sim = FreshTable)))

\* C6: at most one cycle is between the start of Draining and the end of
\* Publishing.
C6_SingleCycle ==
    Cardinality({w \in Workers : pc[w] \in InCycle}) <= 1

\* C7: a cycle that finds the queue empty changes neither the queue nor the
\* table and recomputes nothing; and the cycle of a worker finds it empty
\* when no statement ran on ratings since the worker's previous SELECT.
C7_IdleCycleNoOp ==
    [][\A w \in Workers :
          /\ (pc[w] \in NotRunning /\ pc'[w] = "check") =>
                UNCHANGED <<queue, tableVars, sim_df>>
          /\ (pc[w] = "check" /\ pc'[w] # "check" /\ (queue = {} \/ quiet[w])) =>
                /\ pc'[w] = "idle"
                /\ UNCHANGED <<queue, tableVars, sim_df, recomputes, ratings>>]_vars

\* C7 witness: a worker that ran a cycle with no statement since is back at
\* its SELECT.
C7_Witness ==
    \E w \in Workers :
        /\ pc[w] = "check"
        /\ quiet[w]
        /\ user_similarity # << >>

\* C8 (as claimed): every statement adds as many markers as it changed rows.
C8_OneMarkerPerRow ==
    [][stmt_count' # stmt_count =>
          Cardinality(queue' \ queue) = last_rows']_vars

\* C8 (amended): every statement on ratings executed once the trigger exists
\* adds exactly one marker, whatever rows it changed, and the marker's id is
\* larger than every id issued before.
C8_OneMarkerPerStatement ==
    [][(stmt_count' # stmt_count /\ trigger_installed) =>
          /\ queue' = queue \cup {next_id}
          /\ \A m \in queue : m < next_id
          /\ next_id' = next_id + 1]_vars

\* C8 witness: a statement changed two rows with the trigger installed.
C8_Witness ==
    /\ trigger_installed
    /\ last_rows = 2
    /\ next_id = 2
    /\ queue = {1}

\* C9: every stored entry has user_id_low < user_id_high and no two entries
\* hold the same unordered pair.
C9_CanonicalPairs ==
    \A i \in DOMAIN user_similarity :
        /\ user_similarity[i].user_id_low < user_similarity[i].user_id_high
        /\ \A j \in DOMAIN user_similarity :
              SamePair(user_similarity[i], user_similarity[j]) => i = j

\* C9 witness: a table of all pairs of three users was published.
C9_Witness ==
    /\ Len(user_similarity) = 3
    /\ \E w \in Workers : pc[w] = "done"

\* The entries of a table that hold the pair {a, b} in canonical order.
CanonicalEntries(a, b, df) ==
    SelectSeq(df, LAMBDA row : /\ row.user_id_low = Min2(a, b)
                               /\ row.user_id_high = Max2(a, b))

\* C10: lookup symmetry on the table the predictor read.  For distinct users
\* a and b, the series of a holds for b what the series of b holds for a: one
\* value, the similarity of the canonical entry of {a, b}, when the table has
\* that entry, and nothing otherwise.
C10_LookupSymmetry ==
    \A a \in Users : \A b \in Users \ {a} :
        LET ab == SeriesAt(load_similarity_for_user(a, pred_sim), b)
            ba == SeriesAt(load_similarity_for_user(b, pred_sim), a)
            entries == CanonicalEntries(a, b, pred_sim)
        IN /\ ab = ba
           /\ ab = [k \in 1..Len(entries) |-> entries[k].similarity]
           /\ Len(ab) <= 1

\* C10 witness: the predictor read a table that holds the pair {1, 2} with a
\* similarity other than that of {1, 3}, and nothing for user 3 and user 2.
C10_Witness ==
    /\ Len(pred_sim) = 3
    /\ SeriesAt(load_similarity_for_user(2, pred_sim), 1)
         # SeriesAt(load_similarity_for_user(3, pred_sim), 1)
    /\ SeriesAt(load_similarity_for_user(2, pred_sim), 1) # << >>

\* The target of the call has no row in the ratings read.
TargetAbsent ==
    \A c \in DOMAIN cf_in.ratings_df :
        c[1] = cf_in.user_id => cf_in.ratings_df[c] = NoRow

\* No entry of the table read names the target, in either position.
LookupEmpty ==
    \A k \in DOMAIN cf_in.sim_df :
        /\ cf_in.sim_df[k].user_id_low # cf_in.user_id
        /\ cf_in.sim_df[k].user_id_high # cf_in.user_id

Called == cf_out # NoResult

\* C11: a call for a user absent from the matrix raises 'no ratings for
\* user'; a call for a user in the matrix whose similarity lookup is empty
\* raises 'no similarity data'; neither returns rows.
C11_NamedFailures ==
    Called =>
        /\ TargetAbsent => cf_out = Raise(NoRatingsForUser)
        /\ (~TargetAbsent /\ LookupEmpty) => cf_out = Raise(NoSimilarityData)

\* C11 witness: a user with ratings, missing from a table that holds other
\* pairs, got 'no similarity data'.
C11_Witness ==
    /\ cf_out.error = NoSimilarityData
    /\ ~TargetAbsent
    /\ cf_in.sim_df # << >>

\* The attractions that have a row in the ratings read.
RatedItems ==
    {c[2] : c \in {d \in DOMAIN cf_in.ratings_df : cf_in.ratings_df[d] # NoRow}}

\* The target has rated every attraction of the matrix.
RatedAll ==
    \A i \in RatedItems : cf_in.ratings_df[<<cf_in.user_id, i>>] # NoRow

\* The users that rated attraction i and have an entry of non-zero similarity
\* with the target in the table read.
Contributors(i) ==
    {v \in UsersOf(cf_in.ratings_df) :
        /\ cf_in.ratings_df[<<v, i>>] # NoRow
        /\ \E k \in DOMAIN cf_in.sim_df :
              /\ {cf_in.sim_df[k].user_id_low, cf_in.sim_df[k].user_id_high}
                    = {v, cf_in.user_id}
              /\ cf_in.sim_df[k].similarity # 0}

\* No attraction the target has not rated has a contributor.
NoCandidateScored ==
    \A i \in RatedItems :
        cf_in.ratings_df[<<cf_in.user_id, i>>] = NoRow => Contributors(i) = {}

\* C12 (as claimed): a user in the ratings who rated every attraction of the
\* matrix gets 'cannot build any recommendation'.
C12_RatedAllCannotBuild ==
    (Called /\ ~TargetAbsent /\ RatedAll) => cf_out = Raise(CannotBuild)

\* C12 (amended): a user in the ratings who rated every attraction of the
\* matrix never gets a result: the call raises 'cannot build any
\* recommendation' when the table read names the user and 'no similarity
\* data' when it does not; and every call for a user in the ratings whom the
\* table names raises 'cannot build any recommendation' when no candidate
\* produced a score.
C12_CannotBuild ==
    Called =>
        /\ (~TargetAbsent /\ RatedAll) =>
              cf_out = Raise(IF LookupEmpty THEN NoSimilarityData ELSE CannotBuild)
        /\ (~TargetAbsent /\ ~LookupEmpty /\ NoCandidateScored) =>
              cf_out = Raise(CannotBuild)

\* C12 witness: a user who rated all the attractions of a matrix of two
\* users, and whom the table names, got 'cannot build any recommendation'.
C12_Witness ==
    /\ cf_out = Raise(CannotBuild)
    /\ RatedAll
    /\ ~LookupEmpty
    /\ Cardinality(RatedItems) >= 2

\* The single-contributor scenario, with attractions 10 and 11 numbered 1
\* and 2: the ratings read are the scenario's, the table read is the one the
\* worker computes from them, both attractions exist, the target is user 2.
ScenarioCall ==
    /\ cf_in.ratings_df = RatingsRead(ScenarioRatings, [u \in Users |-> NoRow])
    /\ cf_in.sim_df = Published(compute_pairwise_similarity(ScenarioRatings))
    /\ cf_in.attractions_df = CfItems
    /\ cf_in.user_id = 2

\* C13: in the single-contributor scenario the call returns one row, the
\* attraction user 2 has not rated, with a score of exactly user 1's rating
\* of it.
C13_SingleContributor ==
    (Called /\ ScenarioCall) =>
        /\ cf_out.error = Returned
        /\ Len(cf_out.rows) = 1
        /\ cf_out.rows[1].id = 2
        /\ cf_out.rows[1].num = ScenarioRatings[<<1, 2>>] * cf_out.rows[1].den

\* C13 witness: the call of the scenario was made, with a similarity of the
\* two users that is neither 0 nor 1.
C13_Witness ==
    /\ Called
    /\ ScenarioCall
    /\ cf_in.sim_df[1].similarity \in 1..(NumericScale - 1)

\* The similarity the table read holds for the target and user v.
SimWith(v) ==
    LET k == CHOOSE j \in DOMAIN cf_in.sim_df :
                 {cf_in.sim_df[j].user_id_low, cf_in.sim_df[j].user_id_high}
                    = {v, cf_in.user_id}
    IN cf_in.sim_df[k].similarity

RECURSIVE WeightedSum(_, _)
WeightedSum(S, i) ==
    IF S = {} THEN 0
    ELSE LET v == CHOOSE x \in S : TRUE
         IN SimWith(v) * cf_in.ratings_df[<<v, i>>] + WeightedSum(S \ {v}, i)

RECURSIVE WeightSum(_)
WeightSum(S) ==
    IF S = {} THEN 0
    ELSE LET v == CHOOSE x \in S : TRUE IN SimWith(v) + WeightSum(S \ {v})

\* The candidates that produced a score: the attractions the target has not
\* rated that have a contributor, each with the similarity-weighted average
\* of the contributors' ratings.
ScoredCandidates ==
    {[id |-> i, num |-> WeightedSum(Contributors(i), i),
      den |-> WeightSum(Contributors(i))] :
        i \in {j \in RatedItems :
                  /\ cf_in.ratings_df[<<cf_in.user_id, j>>] = NoRow
                  /\ Contributors(j) # {}}}

SameScore(a, b) == a.num * b.den = b.num * a.den

RowSet == {cf_out.rows[k] : k \in DOMAIN cf_out.rows}

\* The rows are at most top_k, in non-increasing order of score.
AtMostTopKSorted ==
    /\ Len(cf_out.rows) <= cf_in.top_k
    /\ \A k \in 1..(Len(cf_out.rows) - 1) :
          ~ScoreLess(cf_out.rows[k], cf_out.rows[k + 1])

\* The rows are the top_k highest-scored of the candidates that produced a
\* score: as many as there are, up to top_k, each with its score, and no
\* candidate left out scores higher than a row.
TopKHighest ==
    /\ Len(cf_out.rows) = Min2(cf_in.top_k, Cardinality(ScoredCandidates))
    /\ Cardinality(RowSet) = Len(cf_out.rows)
    /\ \A row \in RowSet :
          \E c \in ScoredCandidates : c.id = row.id /\ SameScore(c, row)
    /\ \A c \in ScoredCandidates :
          (\A row \in RowSet : row.id # c.id) =>
              \A row \in RowSet : ~ScoreLess(row, c)

\* C15: a call that returns holds at most top_k rows in non-increasing order
\* of score, and they are the top_k highest-scored candidates among those
\* that produced a score.
C15_TopKHighestScored ==
    cf_out.error = Returned => (AtMostTopKSorted /\ TopKHighest)

WhCalled == wh_out # NoFlag

\* The positions of the dashes of the string of the call.
Dashes == {k \in DOMAIN wh_in.wh_str : wh_in.wh_str[k] = "-"}

\* The positions a..b of the string, up to its first colon, hold an hour:
\* digits, with spaces before or after them at most.
HoldsHour(a, b) ==
    LET str == wh_in.wh_str
        colons == {k \in a..b : str[k] = ":"}
        e == IF colons = {} THEN b
             ELSE (CHOOSE k \in colons : \A j \in colons : k <= j) - 1
    IN \E i \in a..e : \E j \in i..e :
          /\ \A k \in a..(i - 1) : str[k] = " "
          /\ \A k \in i..j : str[k] \in Digits
          /\ \A k \in (j + 1)..e : str[k] = " "

\* The string is a range of hours: one dash, with an hour on each side.
Parses ==
    /\ Cardinality(Dashes) = 1
    /\ LET d == CHOOSE k \in Dashes : TRUE
       IN HoldsHour(1, d - 1) /\ HoldsHour(d + 1, Len(wh_in.wh_str))

KnownPeriods == {"morning", "afternoon", "evening", "night"}

\* C17: the working-hours match of any string and any desired period returns
\* 0 or 1 and raises nothing; when the item is not always open and the period
\* is not 'anytime', it returns 0 for a string that is no range of hours (no
\* dash, several dashes, no number for an hour) and for an unknown period.
C17_HoursMatchNeverRaises ==
    WhCalled =>
        /\ wh_out.error = Returned
        /\ wh_out.value \in {0, 1}
        /\ (/\ ~Contains(wh_in.wh_str, "AlwaysOpen")
            /\ wh_in.desired_period # "anytime"
            /\ (~Parses \/ wh_in.desired_period \notin KnownPeriods))
              => wh_out.value = 0

\* C17 witness: a string with two dashes was matched against a known period.
C17_Witness ==
    /\ WhCalled
    /\ Cardinality(Dashes) = 2
    /\ wh_in.desired_period = "evening"
    /\ wh_out.value = 0

CsCalled == cs_out # NoResult

NonIncreasing(rows) ==
    \A k \in 1..(Len(rows) - 1) : ~CosineLess(rows[k], rows[k + 1])

\* C14: for any item set and any preferences, recommend_cosine returns at
\* most top_k items, ordered by non-increasing score.
C14_AtMostTopKNonIncreasing ==
    CsCalled =>
        /\ cs_out.error = Returned
        /\ Len(cs_out.rows) <= cs_in.top_k
        /\ NonIncreasing(cs_out.rows)

\* C16: content scoring on an empty item set returns an empty result and
\* raises no error, for any preferences.
C16_EmptyItemSetEmptyResult ==
    (CsCalled /\ cs_in.df = << >>) =>
        (cs_out.error = Returned /\ cs_out.rows = << >>)

\* C18: after any sequence of rating submissions the table holds at most one
\* row per (user, attraction) pair, and its value is the rating submitted
\* for the pair most recently (last write wins), also when a batch names an
\* attraction twice and when the rows come from the CSV loader.
C18_LastWriteWins == \A c \in Cells : ratings[c] = submitted[c]

\* A step of the recommendation core: a worker process moved, the predictor
\* read the table or was called, or the content scorer was called.
CoreStep ==
    \/ \E w \in Workers : Ran(w)
    \/ pred_pc' # pred_pc
    \/ cf_out' # cf_out
    \/ cs_out' # cs_out

\* No step of the content scorer or of the predictor changes a table.
ReadOnlyStep ==
    (pred_pc' # pred_pc \/ cf_out' # cf_out \/ cs_out' # cs_out) =>
        UNCHANGED <<queue, next_id, user_similarity, tx_sim, trigger_installed>>

\* C19: the recommendation core never writes source data.  A step of a
\* worker cycle changes no table but the recalc queue and the similarity
\* table, a step of the content scorer or of the predictor changes none, and
\* ratings and attractions, the aggregate rating included, are the same
\* after every step of the three.
C19_CoreLeavesSourceData ==
    [][/\ CoreStep => UNCHANGED <<ratings, attractions>>
       /\ ReadOnlyStep]_vars

\* C19 witness: a worker cycle has published a table, both scoring functions
\* have returned, and meanwhile a statement on ratings has moved the
\* aggregate rating of an attraction.
C19_Witness ==
    /\ user_similarity # << >>
    /\ cf_out.error = Returned
    /\ cs_out.error = Returned
    /\ stmt_count > 0
    /\ attractions # update_attraction_rating(SeedRatings, attractions)
    /\ \E w \in Workers : pc[w] = "done"

\* The ratings the predictor read name fewer than 2 distinct users.
FewerThanTwoUsers == Len(build_user_item_matrix(cf_in.ratings_df).index) < 2

\* C20: building the user-item matrix from ratings with fewer than 2 distinct
\* users fails with an 'insufficient data' condition instead of producing a
\* matrix: a predictor call on such ratings ends with that condition.
C20_FewerThanTwoUsersInsufficient ==
    (Called /\ FewerThanTwoUsers) => cf_out.error = "insufficient data"

\* C21: every item the collaborative predictor returns for a target user is
\* an item that user has not rated in the matrix the call was given.
C21_OnlyUnratedReturned ==
    cf_out.error = Returned =>
        \A k \in DOMAIN cf_out.rows :
            cf_in.ratings_df[<<cf_in.user_id, cf_out.rows[k].id>>] = NoRow

\* C21 witness: a call returned rows for a user who has rated an attraction
\* that other users rated too.
C21_Witness ==
    /\ cf_out.error = Returned
    /\ cf_out.rows # << >>
    /\ \E i \in RatedItems :
          /\ cf_in.ratings_df[<<cf_in.user_id, i>>] # NoRow
          /\ Contributors(i) # {}

\* The users that rated attraction i and have an entry with the target in
\* the table read, whatever the similarity.
EntryUsers(i) ==
    {v \in UsersOf(cf_in.ratings_df) :
        /\ cf_in.ratings_df[<<v, i>>] # NoRow
        /\ \E k \in DOMAIN cf_in.sim_df :
              {cf_in.sim_df[k].user_id_low, cf_in.sim_df[k].user_id_high}
                 = {v, cf_in.user_id}}

RECURSIVE AbsWeightSum(_)
AbsWeightSum(S) ==
    IF S = {} THEN 0
    ELSE LET v == CHOOSE x \in S : TRUE
         IN Abs(SimWith(v)) + AbsWeightSum(S \ {v})

\* C22: the score of every returned item is the sum of similarity * rating
\* divided by the sum of |similarity|, over exactly the users who rated the
\* item and have a similarity entry with the target; an item with no such
\* user, or whose sum of |similarity| is 0, has no entry in the result.
C22_WeightedAverageOrSkipped ==
    cf_out.error = Returned =>
        /\ \A k \in DOMAIN cf_out.rows :
              LET i == cf_out.rows[k].id
              IN /\ cf_out.rows[k].den # 0
                 /\ AbsWeightSum(EntryUsers(i)) # 0
                 /\ cf_out.rows[k].num * AbsWeightSum(EntryUsers(i))
                       = WeightedSum(EntryUsers(i), i) * cf_out.rows[k].den
        /\ \A i \in CfItems :
              AbsWeightSum(EntryUsers(i)) = 0 =>
                  \A k \in DOMAIN cf_out.rows : cf_out.rows[k].id # i

\* C22 witness: a call returned a row while another attraction the target
\* has not rated was skipped: its raters have entries with the target, all
\* of similarity 0.
C22_Witness ==
    /\ cf_out.error = Returned
    /\ cf_out.rows # << >>
    /\ \E i \in CfItems :
          /\ cf_in.ratings_df[<<cf_in.user_id, i>>] = NoRow
          /\ EntryUsers(i) # {}
          /\ AbsWeightSum(EntryUsers(i)) = 0

\* Two rows of a result have the same score.
Tied(a, b) == ~CosineLess(a, b) /\ ~CosineLess(b, a)

\* The rows of the frame that pass the min_rating filter.
Kept ==
    LET rows == MinRatingFilter(ScoredFrame(cs_in.df, cs_in.user_preferences),
                                cs_in.user_preferences)
    IN {rows[k] : k \in DOMAIN rows}

\* C23: content ranking is stable.  Rows of equal score appear in the result
\* in their order in the input frame, and a row left out by the top_k cut
\* that ties with a returned row comes after it in the frame.
C23_StableRanking ==
    cs_out.error = Returned =>
        /\ \A j, k \in DOMAIN cs_out.rows :
              (j < k /\ Tied(cs_out.rows[j], cs_out.rows[k])) =>
                  cs_out.rows[j].index < cs_out.rows[k].index
        /\ \A row \in Kept :
              (\A k \in DOMAIN cs_out.rows : cs_out.rows[k].index # row.index) =>
                  \A k \in DOMAIN cs_out.rows :
                      Tied(row, cs_out.rows[k]) =>
                          cs_out.rows[k].index < row.index

\* The score of row k of the frame of the call, computed with the rating
\* column scaled over all the rows of the frame.
FullFrameScore(k) ==
    CosineScore(item_to_feature_dict(cs_in.df[k],
                                     cs_in.user_preferences.desired_period),
                UserFeatureDict(cs_in.df, cs_in.user_preferences),
                MinOfRatings(cs_in.df), DataRange(cs_in.df))

\* C24: when the caller gives a minimum rating, every returned item has an
\* original rating of at least that minimum, and its score is the one
\* computed over the full item set: the filter comes after the scoring.
C24_MinRatingAfterScoring ==
    (cs_out.error = Returned /\ cs_in.user_preferences.min_rating # NoMinRating)
        => \A k \in DOMAIN cs_out.rows :
              LET row == cs_out.rows[k]
              IN /\ cs_in.df[row.index].rating >= cs_in.user_preferences.min_rating
                 /\ row.rating = cs_in.df[row.index].rating
                 /\ row.num = FullFrameScore(row.index).num
                 /\ row.item2 = FullFrameScore(row.index).item2
                 /\ row.user2 = FullFrameScore(row.index).user2

\* C24 witness: a call with a minimum rating returned rows while the filter
\* dropped the lowest-rated row of the frame, the one that fixes the scale
\* of the rating column, and the rows kept are not all rated alike.
C24_Witness ==
    /\ cs_out.error = Returned
    /\ cs_out.rows # << >>
    /\ cs_in.user_preferences.min_rating # NoMinRating
    /\ MinOfRatings(cs_in.df) < cs_in.user_preferences.min_rating
    /\ \E j, k \in DOMAIN cs_in.df :
          /\ cs_in.df[j].rating >= cs_in.user_preferences.min_rating
          /\ cs_in.df[k].rating > cs_in.df[j].rating

\* The number written at the positions a..b of the string of the call, up
\* to the first colon among them.
HourAt(a, b) ==
    LET str == wh_in.wh_str
        colons == {k \in a..b : str[k] = ":"}
        e == IF colons = {} THEN b
             ELSE (CHOOSE k \in colons : \A j \in colons : k <= j) - 1
    IN DecimalValue(SelectSeq(SubSeq(str, a, e), LAMBDA ch : ch \in Digits))

TheDash == CHOOSE k \in Dashes : TRUE

\* The hours h1 and h2 of a string that is a range.
H1 == HourAt(1, TheDash - 1)

H2 == HourAt(TheDash + 1, Len(wh_in.wh_str))

\* The hours of the day within the range h1-h2; a range that ends before it
\* starts runs past midnight.
RangeHours == IF H1 <= H2 THEN H1..H2 ELSE (H1..23) \cup (0..H2)

\* The buckets of the periods of the day.
Bucket(period) ==
    CASE period = "morning" -> 6..11
      [] period = "afternoon" -> 12..16
      [] period = "evening" -> 17..21

DayPeriods == {"morning", "afternoon", "evening"}

\* The first and the last hour of a bucket.
BucketStart(period) == CHOOSE h \in Bucket(period) : \A g \in Bucket(period) : h <= g

BucketEnd(period) == CHOOSE h \in Bucket(period) : \A g \in Bucket(period) : g <= h

NightRule == (H1 <= 23 /\ H2 >= 22) \/ H1 <= 5

Flag(b) == IF b THEN 1 ELSE 0

\* C25 (as claimed): the flag is 1 whenever the string signals always open
\* and whenever the period is 'anytime'; otherwise, for a range h1-h2, it is
\* 1 exactly when the range overlaps the bucket of morning, afternoon or
\* evening, and for night exactly when (h1 <= 23 and h2 >= 22) or h1 <= 5;
\* in every other case it is 0.
C25_OpenInPeriodOverlap ==
    WhCalled =>
        wh_out.value =
            IF Contains(wh_in.wh_str, "AlwaysOpen") \/ wh_in.desired_period = "anytime"
            THEN 1
            ELSE IF Parses /\ wh_in.desired_period \in DayPeriods
            THEN Flag(RangeHours \cap Bucket(wh_in.desired_period) # {})
            ELSE IF Parses /\ wh_in.desired_period = "night"
            THEN Flag(NightRule)
            ELSE 0

\* C25 (amended): as claimed for a range with h1 <= h2; for a range written
\* with h1 > h2 and a period of the day the flag is 1 exactly when h2 is at
\* least the first hour of the bucket and h1 at most its last hour.
C25_OpenInPeriodRule ==
    WhCalled =>
        wh_out.value =
            IF Contains(wh_in.wh_str, "AlwaysOpen") \/ wh_in.desired_period = "anytime"
            THEN 1
            ELSE IF Parses /\ wh_in.desired_period \in DayPeriods /\ H1 <= H2
            THEN Flag(RangeHours \cap Bucket(wh_in.desired_period) # {})
            ELSE IF Parses /\ wh_in.desired_period \in DayPeriods
            THEN Flag(/\ H2 >= BucketStart(wh_in.desired_period)
                      /\ H1 <= BucketEnd(wh_in.desired_period))
            ELSE IF Parses /\ wh_in.desired_period = "night"
            THEN Flag(NightRule)
            ELSE 0

\* C25 witness: a range that runs past midnight into the morning was matched
\* against 'morning' and found closed.
C25_Witness ==
    /\ WhCalled
    /\ Parses
    /\ wh_in.desired_period = "morning"
    /\ H1 > H2
    /\ H1 <= 23
    /\ H2 >= 6
    /\ wh_out.value = 0

\* No worker is between the start of Draining and the end of Publishing.
NoCycleInProgress == \A w \in Workers : pc[w] \notin InCycle

\* C26: staleness is always signalled.  Whenever the queue is empty and no
\* cycle is in progress, the published similarity table is the one computed
\* from the current contents of ratings.
C26_StalenessSignalled ==
    (queue = {} /\ NoCycleInProgress) => user_similarity = FreshTable

\* Every worker process has run a cycle to the end of a successful
\* Publishing and has not been started since.
AllFinished == \A w \in Workers : pc[w] = "done"

\* C27: when the cycles of two worker processes interleave, a table computed
\* from an older read of ratings is never published over one computed from a
\* newer read: once both have finished and the queue is empty, the published
\* table is the one of the latest ratings.
C27_NewerSnapshotWins ==
    (AllFinished /\ queue = {}) => user_similarity = FreshTable

\* The users that have a rating in r.
RatedUsers(r) == {u \in Users : \E i \in Items : r[<<u, i>>] # NoRow}

\* The unordered pairs of distinct users of S.
UnorderedPairs(S) == {{a, b} : a \in S, b \in S} \ {{a} : a \in S}

\* The pairs of users the entries of a table name.
PairsIn(table) ==
    {{table[k].user_id_low, table[k].user_id_high} : k \in DOMAIN table}

\* The users the entries of a table mention.
Mentioned(table) ==
    {table[k].user_id_low : k \in DOMAIN table}
        \cup {table[k].user_id_high : k \in DOMAIN table}

\* C28: recompute is wholesale.  The sim_df a cycle computes holds exactly
\* one row for every unordered pair of distinct users with a rating in the
\* ratings it read, N (N - 1) / 2 rows for N users, and the table after the
\* cycle's COMMIT holds exactly the entries of that sim_df: no entry of
\* another user, none left from the table before.
C28_WholesaleRecompute ==
    [][\A w \in Workers :
          /\ (pc[w] = "load" /\ pc'[w] = "save") =>
                LET N == Cardinality(RatedUsers(ratings))
                IN /\ PairsIn(sim_df'[w]) = UnorderedPairs(RatedUsers(ratings))
                   /\ 2 * Len(sim_df'[w]) = N * (N - 1)
          /\ (pc[w] = "commit" /\ pc'[w] = "done") =>
                /\ PairsIn(user_similarity') = PairsIn(sim_df[w])
                /\ Len(user_similarity') = Len(sim_df[w])
                /\ Mentioned(user_similarity') \subseteq Mentioned(sim_df[w])]_vars

\* C28 witness: a cycle has published a table without a user who was in the
\* table the predictor read before and whose ratings have all been deleted.
C28_Witness ==
    /\ \E w \in Workers : pc[w] = "done"
    /\ user_similarity # << >>
    /\ user_similarity = published
    /\ \E u \in Mentioned(pred_sim) :
          /\ u \notin Mentioned(user_similarity)
          /\ u \notin RatedUsers(ratings)

\* The steps of a worker in Draining and Recomputing.
BeforePublishing == {"check", "delete", "load"}

\* C29: a cycle that aborts during Recomputing leaves the similarity table as
\* it was before the cycle.  No step of Draining or Recomputing changes the
\* table or the ratings; a cycle that reads ratings of fewer than two users
\* (none included) ends there, and of everything stored only the queue was
\* changed by its steps.
C29_AbortLeavesTable ==
    [][\A w \in Workers :
          /\ (pc[w] \in BeforePublishing /\ pc'[w] # pc[w]) =>
                UNCHANGED <<user_similarity, tx_sim, published, ratings,
                            attractions, trigger_installed>>
          /\ (pc[w] = "load" /\ pc'[w] # pc[w]
                /\ Cardinality(RatedUsers(ratings)) < 2) =>
                /\ pc'[w] = "failed"
                /\ UNCHANGED queue]_vars

\* C29 witness: a cycle has aborted on an empty ratings table, with a table
\* published before still in place.
C29_Witness ==
    /\ faults = 0
    /\ \E w \in Workers : pc[w] = "failed"
    /\ RatedUsers(ratings) = {}
    /\ user_similarity # << >>
    /\ user_similarity = published

\* The ratings of the call that the worker can have read.
CallRatings == [c \in Cells |-> cf_in.ratings_df[c]]

\* The similarity table of the call was computed from the ratings of the
\* call.
TableOfSameRatings ==
    /\ \A c \in DOMAIN cf_in.ratings_df :
          c \notin Cells => cf_in.ratings_df[c] = NoRow
    /\ Cardinality(RatedUsers(CallRatings)) >= 2
    /\ cf_in.sim_df = Published(compute_pairwise_similarity(CallRatings))

RECURSIVE Gcd(_, _)
Gcd(a, b) == IF b = 0 THEN a ELSE Gcd(b, a % b)

\* n1 / m1 = n2 / m2, for positive integers, on the fractions in lowest terms.
SameRatio(n1, m1, n2, m2) ==
    /\ n1 \div Gcd(n1, m1) = n2 \div Gcd(n2, m2)
    /\ m1 \div Gcd(n1, m1) = m2 \div Gcd(n2, m2)

\* The score c.num / c.den of a row of the cached predictor is the score of
\* the row f of the predictor without the cache: the weighted average of the
\* ratings of f's terms, with the exact cosines as weights.
EqualScores(c, f) ==
    LET W == Weighted(f)
        ratings_vals == {t.rating : t \in W}
    IN IF Cardinality(ratings_vals) = 1
       THEN \A r \in ratings_vals : c.num = r * c.den
       ELSE LET p == CHOOSE t \in W : \A s \in W : t.user_id <= s.user_id
                q == CHOOSE t \in W : t.user_id # p.user_id
                alpha == p.rating * c.den - c.num
                beta == q.rating * c.den - c.num
            IN /\ Cardinality(W) = 2
               /\ alpha * beta < 0
               /\ SameRatio(alpha * alpha, beta * beta,
                            q.dot * q.dot * p.norm2, p.dot * p.dot * q.norm2)

\* C30: the cached predictor and the predictor that computes the similarity
\* in place agree.  When the similarity table was computed from the ratings
\* of the call, both fail or both return; and when they return, they return
\* the same items, with the same scores, in the same order of scores.
C30_PredictorsAgree ==
    (cf_out # NoResult /\ fly_out # NoResult /\ TableOfSameRatings) =>
        /\ (cf_out.error = Returned) <=> (fly_out.error = Returned)
        /\ cf_out.error = Returned =>
              /\ Len(cf_out.rows) = Len(fly_out.rows)
              /\ \A k \in DOMAIN cf_out.rows :
                    \E j \in DOMAIN fly_out.rows :
                        /\ fly_out.rows[j].id = cf_out.rows[k].id
                        /\ EqualScores(cf_out.rows[k], fly_out.rows[j])
              /\ \A k \in DOMAIN cf_out.rows :
                    k \in DOMAIN fly_out.rows =>
                        EqualScores(cf_out.rows[k], fly_out.rows[k])
====
